---- MODULE Spec2Model ----
(***************************************************************************)
(* Verification model of the esera-mqtt bridge.                            *)
(*                                                                         *)
(* The module holds several specifications over one set of variables:      *)
(*   SpecSess   - one ControllerConnection: receive / pick! / get          *)
(*   SpecLoop   - the reader and writer tasks of event_loop, the session   *)
(*                thread and the Bridge's view of the inbound channels     *)
(*   SpecBridge - the Bridge's handle() loop, TwoWay::send and Routes      *)
(*   SpecBus    - Bus::set_controller, Universe::populate, register_1wire  *)
(*   SpecEnum   - Universe::populate with device lists that leave bus ids  *)
(*                out and hold switches, a bounded number of times         *)
(*   SpecRoutes - Routes::register, lookup and subscriptions               *)
(*   SpecRecv   - receive, munch and next() of one ControllerConnection    *)
(*                over the bytes of a stream                               *)
(*   SpecOpen   - the start of a session: setup, csi, list, event_loop     *)
(*   SpecDev    - handle_1wire and handle_mqtt of Controller2 and Switch8  *)
(*   SpecShutter - one Shutter, its handlers and the time that passes      *)
(*   SpecClimate - one HVAC controller: process, eval and the main loop    *)
(*   SpecMqtt   - the reader thread of the MQTT connection and its delay   *)
(*   SpecSelect - Model::select applied to the entries of a device list    *)
(*   SpecShared - pick! and the reader thread on one ControllerConnection  *)
(*   SpecDispatch - Universe::handle_1wire: events after enumerations       *)
(*   SpecStart  - the start of a session and the Bridge handling its items *)
(*   SpecDio    - the Controller2 in slot 0: CSI, device list, DIO mode    *)
(*   SpecList   - list(): the device list through lst3, munch and pick!    *)
(* A specification leaves the variables of the other parts at their        *)
(* initial values.                                                         *)
(***************************************************************************)
EXTENDS Integers, Sequences, FiniteSets, TLC

VARIABLES
    \* ---- ControllerConnection (controller.rs) ----
    wire,        \* parsed-but-unread messages waiting in the socket, in arrival order
    arrived,     \* number of messages the controller has sent so far
    closed,      \* "open", or how the transport ended: "eof" | "ioerr"
    queue,       \* ControllerConnection.queue : VecDeque<Result<Response>>
    pc,          \* position of the thread that calls pick! / get
    want,        \* the Response variant a running pick! looks for
    found,       \* index located by the scan of pick! (0 = none)
    result,      \* what the last pick! / get returned
    scanned,     \* the queue as the last scan of pick! saw it
    streamed,    \* messages returned by get(), oldest first
    picked,      \* ids of the messages returned by pick!
    \* ---- event_loop tasks and the Bridge's view of them ----
    transport,   \* per controller: "open" | "closed" (read() returns 0)
    inCnt,       \* per controller: messages readable on the socket
    readerPc,    \* per controller: "sleep" | "read" | "exited"
    writerPc,    \* per controller: "recv" | "send" | "exited"
    done,        \* per controller: the AtomicCell<bool> of event_loop
    sessThread,  \* per controller: "event_loop" | "returned" | "reconnect"
    downCnt,     \* per controller: items in the inbound channel (down)
    downOpen,    \* per controller: down_tx is still alive
    upCnt,       \* per controller: lines in the outbound channel (up)
    sawClosed,   \* per controller: handle() has returned ChanClosed(i)
    \* ---- Bridge: handle(), TwoWay::send, Routes (bin/esera-bridge.rs) ----
    down,        \* per controller: the inbound channel (receivers[i]), oldest first
    up,          \* per controller: the lines sent to senders[i] so far
    mqttIn,      \* the inbound MQTT channel (mqtt_chan), oldest first
    mqttSent,    \* the messages handed to MqttConnection::send so far, by the
                 \* channel whose item they answer (0: the MQTT channel)
    bridgePc,    \* "start" | "select" | "send" | "recipients"
    pending,     \* the TwoWay that TwoWay::send is working through
    target,      \* the index i of the senders[i] that TwoWay::send was given
    recipients,  \* what is left of `routes.lookup(topic)` for the current publish
    last,        \* the inbound item handle() took last
    routes,      \* Routes.by_topic : topic -> Vec<((contno, slot), token)>
    busContno,   \* per controller index: bus[i].contno
    busDev,      \* per controller index: bus[i].devices (slots 1..)
    queued,      \* per controller: number of items its session has queued
    arrivedMqtt, \* number of MQTT messages received from the broker
    handled,     \* per controller: the numbers of the items handled, in order
    due,         \* per handled item: how many MQTT messages its TwoWay held
    invoked,     \* the recipients handle_mqtt was called for, current publish
    \* ---- Universe / Bus of one controller (bus.rs) ----
    hasBus,      \* Universe.bus holds the Bus of the controller
    devices,     \* Bus.devices: slot -> the Model in it
    busaddrs,    \* Bus.busaddrs: bus address -> slot
    topics,      \* Universe.topics: topic -> (contno, slot, token)
    lastList,    \* the device list populate() was called with last
    repeat,      \* how often in a row lastList has been applied (up to 2)
    asserted,    \* the assertion of populate() has failed
    enumerated,  \* calls of populate() counted under SpecEnum
    \* ---- one Routes table and its callers (routing.rs) ----
    byTopic,     \* Routes.by_topic: topic -> the recipients, in order
    regLog,      \* the register() calls made so far, <<topic, id>> each
    ret,         \* the last call of the table and what it returned
    \* ---- one ControllerConnection at the level of bytes (controller.rs) ----
    input,       \* the bytes the stream holds in all
    cursor,      \* the bytes of the stream not read yet
    partial,     \* ControllerConnection.partial, a String, char by char
    backlog,     \* ControllerConnection.queue: the results munch() produced
    yielded,     \* what the calls of next() have returned so far
    reads,       \* calls of read() that returned data
    panicked,    \* munch() has panicked
    \* ---- the start of one session: new(), csi(), list() (controller.rs) ----
    stage,       \* the command of the handshake the session is at, 1..7
    hsPc,        \* "send", "pick", "running" (event_loop) or "failed"
    sent,        \* the commands written to the controller, in order
    answered,    \* how many of them the controller has answered
    hsWire,      \* responses on the socket, not read yet
    hsQueue,     \* ControllerConnection.queue
    hsClosed,    \* the controller has closed the connection
    acked,       \* the kinds of the responses picked, in order
    hsDown,      \* what was sent into the inbound channel of the Bridge
    nErr,        \* ERR lines the controller has sent
    nKal,        \* keepalives the controller has sent
    \* ---- the handlers of single devices (device/*.rs) ----
    inputs,      \* Controller2.inputs: the input word seen last
    seenWord,    \* per device: the input word it was given last, -1 if none
    devCall,     \* the last call of a handler and its arguments
    devOut,       \* what that call returned: a TwoWay or an error
    \* ---- one Shutter and its clock (device/shutter.rs) ----
    now,         \* Instant::now(), in half seconds since `start` was set last
    buttons,     \* Shutter.buttons: the word of the two buttons seen last
    direction,   \* Shutter.direction: "Stop", "Close" or "Open"
    start,       \* Shutter.start: 0 for the Instant the motion began, -1 for None
    initial_pos, \* Shutter.initial_pos, in 1/PosScale percent
    position,    \* Shutter.position, in 1/PosScale percent
    shCall,      \* the last call of a handler of the Shutter, and its state before
    shOut,        \* the TwoWay that call returned
    \* ---- one HVAC controller and its main loop (climate.rs, bin/climate.rs) ----
    config,      \* Climate.conf: which optional topics are named, and the offset
    mode,        \* Climate.mode: "off" or "heat"
    temp_set,    \* Climate.temp_set, in 1/100 degrees
    temp_cur,    \* Climate.temp_cur, in 1/100 degrees
    heating_on,  \* Climate.heating_on
    aux_on,      \* Climate.aux_on
    hvPc,        \* "start", "loop" (the main loop runs) or "ended"
    hvCall,      \* the token and payload of the message processed last
    hvErr,       \* the error Climate::process returned for it, or "none"
    hvOut,        \* the messages the main loop sent for it
    \* ---- the reader thread of the MQTT connection (mqtt.rs) ----
    retry,       \* recv_loop's `retry`: the next delay in ms
    slept,       \* the delay of the last thread::sleep, 0 if none yet
    failures,    \* Err events the connection has yielded so far
    lastEvt,     \* the kind of the event taken last
    mqDown,      \* messages sent into tx so far
    rxOpen,      \* the receiver of the channel exists
    mqPc,         \* "running", or "ended" once the thread has returned
    \* ---- the devices selected for the entries of a device list ----
    selected,     \* the Models built by Model::select, in list order
    \* ---- a reader thread on the same ControllerConnection (controller.rs) ----
    rdPc,         \* "check" | "pop" | "ended": the reader's place in get()
    \* ---- Universe::handle_1wire as the entry point of events (bus.rs) ----
    fault,       \* "none", or the panic that ended the process
    delivered,    \* the last event dispatched and the slot it reached
    \* ---- the Bridge at the channel of a starting session ----
    taken,        \* items of the session's channel the Bridge has handled
    \* ---- the Controller2 in slot 0 and its discovery entries (controller2.rs) ----
    slot0,       \* the variant in devices[0]: "Unknown" | "Controller2"
    dio,         \* Controller2.dio
    sw_version,  \* Controller2.sw_version
    announced,   \* the press type of the button entries published last
    dioPending,  \* GET,SYS,DIO commands sent and not answered yet
    dioOut,       \* the payload published last under "dio", "none" if none
    \* ---- list(): the device list through lst3, munch and pick! ----
    lsStage,     \* what the controller is writing: "header" | "items" | "after"
    lsCount,     \* complete LST lines the controller has written
    lsPartial,   \* ControllerConnection.partial, in lines and begun lines
    lsQueue,     \* ControllerConnection.queue
    lsPicked     \* the entries of the list pick!(List3) returned, -1: none yet

sessVars == <<wire, arrived, closed, queue, pc, want, found, result, scanned,
              streamed, picked>>

loopVars == <<transport, inCnt, readerPc, writerPc, done, sessThread, downCnt,
              downOpen, upCnt, sawClosed>>

bridgeVars == <<down, up, mqttIn, mqttSent, bridgePc, pending, target,
                recipients, last, routes, busContno, busDev, queued,
                arrivedMqtt, handled, due, invoked>>

busVars == <<hasBus, devices, busaddrs, topics, lastList, repeat, asserted,
            enumerated>>

rtVars == <<byTopic, regLog, ret>>

rxVars == <<input, cursor, partial, backlog, yielded, reads, panicked>>

hsVars == <<stage, hsPc, sent, answered, hsWire, hsQueue, hsClosed, acked,
           hsDown, nErr, nKal>>

devVars == <<inputs, seenWord, devCall, devOut>>

shVars == <<now, buttons, direction, start, initial_pos, position, shCall, shOut>>

hvVars == <<config, mode, temp_set, temp_cur, heating_on, aux_on, hvPc, hvCall, hvErr, hvOut>>

mqVars == <<retry, slept, failures, lastEvt, mqDown, rxOpen, mqPc>>

selVars == <<selected>>

cnVars == <<rdPc>>

dpVars == <<fault, delivered>>

stVars == <<taken>>

c2Vars == <<slot0, dio, sw_version, announced, dioPending, dioOut>>

lsVars == <<lsStage, lsCount, lsPartial, lsQueue, lsPicked>>

vars == <<sessVars, loopVars, bridgeVars, busVars, rtVars, rxVars, hsVars,
          devVars, shVars, hvVars, mqVars, selVars, cnVars, dpVars, stVars,
          c2Vars, lsVars>>

\* what the steps of one part leave alone
notSess == <<loopVars, bridgeVars, busVars, rtVars, rxVars, hsVars,
             devVars, shVars, hvVars, mqVars, selVars, cnVars, dpVars,
             stVars, c2Vars, lsVars>>
notLoop == <<sessVars, bridgeVars, busVars, rtVars, rxVars, hsVars,
             devVars, shVars, hvVars, mqVars, selVars, cnVars, dpVars,
             stVars, c2Vars, lsVars>>
notBridge == <<sessVars, loopVars, busVars, rtVars, rxVars, hsVars,
               devVars, shVars, hvVars, mqVars, selVars, cnVars, dpVars,
               stVars, c2Vars, lsVars>>
notBus == <<sessVars, loopVars, bridgeVars, rtVars, rxVars, hsVars,
            devVars, shVars, hvVars, mqVars, selVars, cnVars, dpVars,
            stVars, c2Vars, lsVars>>
notRt == <<sessVars, loopVars, bridgeVars, busVars, rxVars, hsVars,
           devVars, shVars, hvVars, mqVars, selVars, cnVars, dpVars,
           stVars, c2Vars, lsVars>>
notRx == <<sessVars, loopVars, bridgeVars, busVars, rtVars, hsVars,
           devVars, shVars, hvVars, mqVars, selVars, cnVars, dpVars,
           stVars, c2Vars, lsVars>>
notHs == <<sessVars, loopVars, bridgeVars, busVars, rtVars, rxVars,
           devVars, shVars, hvVars, mqVars, selVars, cnVars, dpVars,
           stVars, c2Vars, lsVars>>
notDev == <<sessVars, loopVars, bridgeVars, busVars, rtVars, rxVars,
            hsVars, shVars, hvVars, mqVars, selVars, cnVars, dpVars,
            stVars, c2Vars, lsVars>>
notSh == <<sessVars, loopVars, bridgeVars, busVars, rtVars, rxVars, hsVars,
           devVars, hvVars, mqVars, selVars, cnVars, dpVars, stVars,
           c2Vars, lsVars>>
notHv == <<sessVars, loopVars, bridgeVars, busVars, rtVars, rxVars, hsVars,
           devVars, shVars, mqVars, selVars, cnVars, dpVars, stVars,
           c2Vars, lsVars>>
notMq == <<sessVars, loopVars, bridgeVars, busVars, rtVars, rxVars, hsVars,
           devVars, shVars, hvVars, selVars, cnVars, dpVars, stVars,
           c2Vars, lsVars>>
notSel == <<sessVars, loopVars, bridgeVars, busVars, rtVars, rxVars,
            hsVars, devVars, shVars, hvVars, mqVars, cnVars, dpVars,
            stVars, c2Vars, lsVars>>
notCn == <<sessVars, loopVars, bridgeVars, busVars, rtVars, rxVars, hsVars,
           devVars, shVars, hvVars, mqVars, selVars, dpVars, stVars,
           c2Vars, lsVars>>
\* what a step of the reader thread on the shared connection leaves alone
notSessCn == <<loopVars, bridgeVars, busVars, rtVars, rxVars, hsVars,
               devVars, shVars, hvVars, mqVars, selVars, dpVars, stVars,
               c2Vars, lsVars>>
notDp == <<sessVars, loopVars, bridgeVars, busVars, rtVars, rxVars, hsVars,
           devVars, shVars, hvVars, mqVars, selVars, cnVars, stVars,
           c2Vars, lsVars>>
notSt == <<sessVars, loopVars, bridgeVars, busVars, rtVars, rxVars, hsVars,
           devVars, shVars, hvVars, mqVars, selVars, cnVars, dpVars,
           c2Vars, lsVars>>
\* what the Bridge's handling of an item of a starting session leaves alone
notBusSt == <<sessVars, loopVars, bridgeVars, rtVars, rxVars, hsVars,
              devVars, shVars, hvVars, mqVars, selVars, cnVars, dpVars,
              c2Vars, lsVars>>
notC2 == <<sessVars, loopVars, bridgeVars, busVars, rtVars, rxVars, hsVars,
           devVars, shVars, hvVars, mqVars, selVars, cnVars, dpVars,
           stVars, lsVars>>
notLs == <<sessVars, loopVars, bridgeVars, busVars, rtVars, rxVars, hsVars,
           devVars, shVars, hvVars, mqVars, selVars, cnVars, dpVars,
           stVars, c2Vars>>

\* ---------------------------------------------------------------------------
\* Bounds
MaxWire == 3       \* messages one controller sends in a run
MaxChunk == 3      \* complete messages one read() can return
NumCtrl == 2       \* controllers given on the command line
MaxIn == 1         \* unread messages on one socket
MaxDown == 1       \* items waiting in one inbound channel
MaxUp == 1         \* lines waiting in one outbound channel
NumBus == 2        \* controllers the Bridge of SpecBridge multiplexes
MaxEvents == 1     \* items the sessions queue after their device lists
MaxMqttIn == 1     \* messages the MQTT session queues for the Bridge
MaxItems == 2      \* entries of a device list given to populate()
MaxEnum == 2       \* calls of populate() with a list of EnumLists
MaxReg == 3        \* calls of Routes::register
MaxBytes == 4      \* bytes the stream of SpecRecv holds
MaxErr == 1        \* ERR lines the controller of SpecOpen sends
MaxKal == 1        \* keepalives the controller of SpecOpen sends
MaxOver == 2       \* half centivolts a set/ana payload lies from 0, 5.5, 10 V
MaxBits == 2       \* channels of a Switch8 that are ever 1
MaxClock == 9      \* half seconds a motion of the Shutter is followed
MaxFail == 28      \* Err events the MQTT connection yields
MaxMq == 2         \* messages the MQTT reader sends into its channel
MaxSel == 2        \* list entries a Model is selected for
MaxLst == 30       \* LST lines the controller writes in one list
MaxAsk == 3        \* GET,SYS,DIO commands that wait for their answer

\* ---------------------------------------------------------------------------
\* ControllerConnection: messages

\* Response variants that the program picks (setup, csi, list) ...
PickKinds == {"Dataprint", "Date"}
\* ... and the shapes a queue entry can take: Ok(Response::<kind>),
\* Ok(Response::Err(code)) and Err(Error::Parse(_)).
ErrCodes == {3, 7}
Shapes == {[kind |-> k, code |-> 0] : k \in PickKinds \cup {"Keepalive", "Parse"}}
          \cup {[kind |-> "Err", code |-> e] : e \in ErrCodes}

Msg(id, shape) == [id |-> id, kind |-> shape.kind, code |-> shape.code]

NoMsg == [id |-> 0, kind |-> "none", code |-> 0]

Returned(type, m) == [type |-> type, id |-> m.id, kind |-> m.kind, code |-> m.code]

NoResult == Returned("none", NoMsg)

\* VecDeque::swap_remove_back(i): the last element takes the place of element i
SwapRemoveBack(q, i) ==
    IF i = Len(q) THEN SubSeq(q, 1, Len(q) - 1)
    ELSE SubSeq(q, 1, i - 1) \o <<q[Len(q)]>> \o SubSeq(q, i + 1, Len(q) - 1)

\* VecDeque::remove(i): drops the element at index i, keeps the others in order
RemoveAt(q, i) == SubSeq(q, 1, i - 1) \o SubSeq(q, i + 1, Len(q))

\* a scan that does not look at Response::Err entries
RECURSIVE ScanNoErr(_, _, _)
ScanNoErr(q, kind, i) ==
    IF i > Len(q) THEN [hit |-> "none", at |-> 0]
    ELSE IF q[i].kind = kind THEN [hit |-> "found", at |-> i]
    ELSE ScanNoErr(q, kind, i + 1)

\* The scan of pick!: walks the queue from the front; the first entry that is
\* the wanted variant ends the scan with its index, a Response::Err entry met
\* before ends it with the error, Err(Parse) entries and other variants are
\* stepped over.
RECURSIVE Scan(_, _, _)
Scan(q, kind, i) ==
    IF i > Len(q) THEN [hit |-> "none", at |-> 0]
    ELSE IF q[i].kind = kind THEN [hit |-> "found", at |-> i]
    ELSE IF q[i].kind = "Err" THEN [hit |-> "error", at |-> i]
    ELSE Scan(q, kind, i + 1)

\* VecDeque::pop_back, where get() uses pop_front
PopBack(q) == [item |-> q[Len(q)], rest |-> SubSeq(q, 1, Len(q) - 1)]

\* VecDeque::pop_front
PopFront(q) == [item |-> Head(q), rest |-> Tail(q)]

\* ---------------------------------------------------------------------------
\* ControllerConnection: environment

\* the controller writes one more line to the socket
ControllerSends(shape) ==
    /\ closed = "open"
    /\ arrived < MaxWire
    /\ arrived' = arrived + 1
    /\ wire' = Append(wire, Msg(arrived + 1, shape))
    /\ UNCHANGED <<closed, queue, pc, want, found, result, scanned, streamed, picked>>
    /\ UNCHANGED notSess

\* the connection ends: read() returns 0 (eof) or an io error (e.g. timeout)
TransportEnds(how) ==
    /\ closed = "open"
    /\ closed' = how
    /\ UNCHANGED <<wire, arrived, queue, pc, want, found, result, scanned, streamed, picked>>
    /\ UNCHANGED notSess

\* ---------------------------------------------------------------------------
\* ControllerConnection: receive / pick! / get

\* receive() with data: read() hands over the next n complete messages and
\* munch pushes each to the back of the queue
ReceiveData(n) ==
    /\ n \in 1..Len(wire)
    /\ n <= MaxChunk
    /\ queue' = queue \o SubSeq(wire, 1, n)
    /\ wire' = SubSeq(wire, n + 1, Len(wire))

CallPick(kind) ==
    /\ pc = "idle"
    /\ pc' = "pick_scan"
    /\ want' = kind
    /\ result' = NoResult
    /\ scanned' = <<>>
    /\ UNCHANGED <<wire, arrived, closed, queue, found, streamed, picked>>
    /\ UNCHANGED notSess

\* a scan that takes the Response::Err it fails on out of the queue
PickScanTakesError ==
    /\ pc = "pick_scan"
    /\ scanned' = queue
    /\ LET s == Scan(queue, want, 1) IN
         CASE s.hit = "found" ->
                /\ found' = s.at
                /\ pc' = "pick_remove"
                /\ UNCHANGED <<result, queue>>
           [] s.hit = "error" ->
                /\ result' = Returned("controller", queue[s.at])
                /\ queue' = RemoveAt(queue, s.at)
                /\ pc' = "idle"
                /\ UNCHANGED found
           [] OTHER ->
                /\ pc' = "pick_recv"
                /\ UNCHANGED <<found, result, queue>>
    /\ UNCHANGED <<wire, arrived, closed, want, streamed, picked>>
    /\ UNCHANGED notSess

\* pick!: `for (i, item) in queue.lock().iter().enumerate()`
PickScan ==
    /\ pc = "pick_scan"
    /\ scanned' = queue
    /\ LET s == Scan(queue, want, 1) IN
         CASE s.hit = "found" ->
                /\ found' = s.at
                /\ pc' = "pick_remove"
                /\ UNCHANGED result
           [] s.hit = "error" ->
                /\ result' = Returned("controller", queue[s.at])
                /\ pc' = "idle"
                /\ UNCHANGED found
           [] OTHER ->
                /\ pc' = "pick_recv"
                /\ UNCHANGED <<found, result>>
    /\ UNCHANGED <<wire, arrived, closed, queue, want, streamed, picked>>
    /\ UNCHANGED notSess

\* the pick sleeps and scans again
PickRetriesOnEof == [pc |-> "pick_scan", result |-> NoResult]

\* pick!: `Ok(false) => break Err(Error::Disconnected)`
PickOnEof == [pc |-> "idle", result |-> Returned("disconnected", NoMsg)]

\* pick!: `match conn.receive()` after the scan found nothing
PickReceive ==
    /\ pc = "pick_recv"
    /\ \/ /\ \E n \in 1..MaxChunk : ReceiveData(n)
          /\ pc' = "pick_scan"
          /\ UNCHANGED result
       \/ /\ wire = <<>>
          /\ closed = "eof"
          /\ result' = PickOnEof.result
          /\ pc' = PickOnEof.pc
          /\ UNCHANGED <<wire, queue>>
       \/ /\ wire = <<>>
          /\ closed = "ioerr"
          /\ result' = Returned("transport", NoMsg)
          /\ pc' = "idle"
          /\ UNCHANGED <<wire, queue>>
    /\ UNCHANGED <<arrived, closed, want, found, scanned, streamed, picked>>
    /\ UNCHANGED notSess

\* `queue.lock().remove(i).unwrap().unwrap()` and the `if let` around it:
\* no entry at i, an Err entry at i or an entry of another variant at i is a
\* panic, the last two after the entry has left the queue
RemoveFound(q, i, kind) ==
    IF i > Len(q) THEN [result |-> Returned("panic", NoMsg), ids |-> {}, rest |-> q]
    ELSE IF q[i].kind # kind
         THEN [result |-> Returned("panic", q[i]), ids |-> {},
               rest |-> RemoveAt(q, i)]
         ELSE [result |-> Returned("picked", q[i]), ids |-> {q[i].id},
               rest |-> RemoveAt(q, i)]

\* pick!: `found.map(|i| queue.lock().remove(i))`
PickRemove ==
    /\ pc = "pick_remove"
    /\ result' = RemoveFound(queue, found, want).result
    /\ picked' = picked \cup RemoveFound(queue, found, want).ids
    /\ queue' = RemoveFound(queue, found, want).rest
    /\ found' = 0
    /\ pc' = "idle"
    /\ UNCHANGED <<wire, arrived, closed, want, scanned, streamed>>
    /\ UNCHANGED notSess

CallGet ==
    /\ pc = "idle"
    /\ pc' = "get"
    /\ want' = "none"
    /\ result' = NoResult
    /\ scanned' = <<>>
    /\ UNCHANGED <<wire, arrived, closed, queue, found, streamed, picked>>
    /\ UNCHANGED notSess

\* get(): `while queue.is_empty() { receive() }`
GetReceive ==
    /\ pc = "get"
    /\ queue = <<>>
    /\ \/ /\ \E n \in 1..MaxChunk : ReceiveData(n)
          /\ UNCHANGED <<pc, result>>
       \/ /\ wire = <<>>
          /\ closed = "eof"
          /\ result' = Returned("end", NoMsg)
          /\ pc' = "idle"
          /\ UNCHANGED <<wire, queue>>
       \/ /\ wire = <<>>
          /\ closed = "ioerr"
          /\ result' = Returned("transport", NoMsg)
          /\ pc' = "idle"
          /\ UNCHANGED <<wire, queue>>
    /\ UNCHANGED <<arrived, closed, want, found, scanned, streamed, picked>>
    /\ UNCHANGED notSess

\* get(): `queue.pop_front()`
GetPop ==
    /\ pc = "get"
    /\ queue # <<>>
    /\ LET p == PopFront(queue) IN
         /\ result' = Returned("item", p.item)
         /\ streamed' = Append(streamed, p.item)
         /\ queue' = p.rest
    /\ pc' = "idle"
    /\ UNCHANGED <<wire, arrived, closed, want, found, scanned, picked>>
    /\ UNCHANGED notSess

InitSess ==
    /\ wire = <<>>
    /\ arrived = 0
    /\ closed = "open"
    /\ queue = <<>>
    /\ pc = "idle"
    /\ want = "none"
    /\ found = 0
    /\ result = NoResult
    /\ scanned = <<>>
    /\ streamed = <<>>
    /\ picked = {}

\* the reader thread of event_loop, `while let Some(item) = self.get()`:
\* get() tests `queue.lock().is_empty()` and calls receive() while it is
ReaderCheck ==
    /\ rdPc = "check"
    /\ IF queue # <<>>
       THEN /\ rdPc' = "pop"
            /\ UNCHANGED <<wire, queue>>
       ELSE \/ /\ \E n \in 1..MaxChunk : ReceiveData(n)
               /\ UNCHANGED rdPc
            \/ /\ wire = <<>>
               /\ closed # "open"
               /\ rdPc' = "ended"
               /\ UNCHANGED <<wire, queue>>
    /\ UNCHANGED <<arrived, closed, pc, want, found, result, scanned, streamed,
                   picked>>
    /\ UNCHANGED notSessCn

\* get(): `self.queue.lock().pop_front()`, taken under a new lock; None ends
\* the reader
ReaderPop ==
    /\ rdPc = "pop"
    /\ IF queue = <<>>
       THEN /\ rdPc' = "ended"
            /\ UNCHANGED <<queue, streamed>>
       ELSE /\ streamed' = Append(streamed, PopFront(queue).item)
            /\ queue' = PopFront(queue).rest
            /\ rdPc' = "check"
    /\ UNCHANGED <<wire, arrived, closed, pc, want, found, result, scanned,
                   picked>>
    /\ UNCHANGED notSessCn

InitCn == rdPc = "check"

\* a thread that picks and the reader thread share the connection
NextShared ==
    \/ \E shape \in Shapes : ControllerSends(shape)
    \/ \E how \in {"eof", "ioerr"} : TransportEnds(how)
    \/ \E kind \in PickKinds : CallPick(kind)
    \/ PickScan
    \/ PickReceive
    \/ PickRemove
    \/ ReaderCheck
    \/ ReaderPop

NextSess ==
    \/ \E shape \in Shapes : ControllerSends(shape)
    \/ \E how \in {"eof", "ioerr"} : TransportEnds(how)
    \/ \E kind \in PickKinds : CallPick(kind)
    \/ PickScan
    \/ PickReceive
    \/ PickRemove
    \/ CallGet
    \/ GetReceive
    \/ GetPop

\* ---------------------------------------------------------------------------
\* event_loop: reader task, writer task, session thread (controller.rs) and
\* the channel ends held by the Bridge (bin/esera-bridge.rs)

Ctrls == 1..NumCtrl

\* the controller writes a line to the socket of session c
ControllerData(c) ==
    /\ transport[c] = "open"
    /\ inCnt[c] < MaxIn
    /\ inCnt' = [inCnt EXCEPT ![c] = @ + 1]
    /\ UNCHANGED <<transport, readerPc, writerPc, done, sessThread, downCnt,
                   downOpen, upCnt, sawClosed>>
    /\ UNCHANGED notLoop

\* the controller (or the network) closes the connection of session c
TransportCloses(c) ==
    /\ transport[c] = "open"
    /\ transport' = [transport EXCEPT ![c] = "closed"]
    /\ UNCHANGED <<inCnt, readerPc, writerPc, done, sessThread, downCnt,
                   downOpen, upCnt, sawClosed>>
    /\ UNCHANGED notLoop

\* reader, get(): after the 25 ms sleep, receive() locks the stream and reads
ReaderEnterRead(c) ==
    /\ readerPc[c] = "sleep"
    /\ readerPc' = [readerPc EXCEPT ![c] = "read"]
    /\ UNCHANGED <<transport, inCnt, writerPc, done, sessThread, downCnt,
                   downOpen, upCnt, sawClosed>>
    /\ UNCHANGED notLoop

\* reader: read() returned data; get() returns the item, it is sent down;
\* the Bridge never drops its receiver, so down.send succeeds; then
\* `if done.load() { return }`
ReaderItem(c) ==
    /\ readerPc[c] = "read"
    /\ inCnt[c] > 0
    /\ downCnt[c] < MaxDown
    /\ inCnt' = [inCnt EXCEPT ![c] = @ - 1]
    /\ downCnt' = [downCnt EXCEPT ![c] = @ + 1]
    /\ readerPc' = [readerPc EXCEPT ![c] = IF done[c] THEN "exited" ELSE "sleep"]
    /\ UNCHANGED <<transport, writerPc, done, sessThread, downOpen, upCnt, sawClosed>>
    /\ UNCHANGED notLoop

\* reader: read() returned 0, get() returns None; `done.store(true)`
ReaderEof(c) ==
    /\ readerPc[c] = "read"
    /\ inCnt[c] = 0
    /\ transport[c] = "closed"
    /\ done' = [done EXCEPT ![c] = TRUE]
    /\ readerPc' = [readerPc EXCEPT ![c] = "exited"]
    /\ UNCHANGED <<transport, inCnt, writerPc, sessThread, downCnt, downOpen,
                   upCnt, sawClosed>>
    /\ UNCHANGED notLoop

\* writer: `up.recv()` returns a line; it blocks while the channel is empty,
\* and the Bridge keeps its Sender for the life of the process
WriterRecv(c) ==
    /\ writerPc[c] = "recv"
    /\ upCnt[c] > 0
    /\ upCnt' = [upCnt EXCEPT ![c] = @ - 1]
    /\ writerPc' = [writerPc EXCEPT ![c] = "send"]
    /\ UNCHANGED <<transport, inCnt, readerPc, done, sessThread, downCnt,
                   downOpen, sawClosed>>
    /\ UNCHANGED notLoop

\* writer: send_line() needs the stream lock, which the reader holds for the
\* whole of a blocking read(); a write to a closed connection may or may not
\* report an error; then `if done.load() { return }`
WriterSend(c, ok) ==
    /\ writerPc[c] = "send"
    /\ readerPc[c] # "read"
    /\ ok \/ transport[c] = "closed"
    /\ IF ok
       THEN /\ writerPc' = [writerPc EXCEPT ![c] = IF done[c] THEN "exited" ELSE "recv"]
            /\ UNCHANGED done
       ELSE /\ done' = [done EXCEPT ![c] = TRUE]
            /\ writerPc' = [writerPc EXCEPT ![c] = "exited"]
    /\ UNCHANGED <<transport, inCnt, readerPc, sessThread, downCnt, downOpen,
                   upCnt, sawClosed>>
    /\ UNCHANGED notLoop

\* crossbeam::scope has joined both tasks, event_loop returns Ok(()), the
\* session thread ends and drops the connection, down_tx and up_rx
ThreadReturns(c) ==
    /\ sessThread[c] = "event_loop"
    /\ readerPc[c] = "exited"
    /\ writerPc[c] = "exited"
    /\ sessThread' = [sessThread EXCEPT ![c] = "returned"]
    /\ downOpen' = [downOpen EXCEPT ![c] = FALSE]
    /\ UNCHANGED <<transport, inCnt, readerPc, writerPc, done, downCnt, upCnt,
                   sawClosed>>
    /\ UNCHANGED notLoop

\* Bridge: select() hands over an item of controller c; handling it sends n
\* command lines to senders[c] (a send to a dropped receiver is an error that
\* ends handle(), which run() calls again)
BridgeRecv(c, n) ==
    /\ downCnt[c] > 0
    /\ downCnt' = [downCnt EXCEPT ![c] = @ - 1]
    /\ upCnt[c] + n <= MaxUp
    /\ upCnt' = [upCnt EXCEPT ![c] = IF sessThread[c] = "event_loop" THEN @ + n ELSE @]
    /\ UNCHANGED <<transport, inCnt, readerPc, writerPc, done, sessThread,
                   downOpen, sawClosed>>
    /\ UNCHANGED notLoop

\* Bridge: an MQTT publish is routed to a device of controller c and its
\* command line is sent to senders[c]
BridgeMqttCommand(c) ==
    /\ upCnt[c] < MaxUp
    /\ sessThread[c] = "event_loop"
    /\ upCnt' = [upCnt EXCEPT ![c] = @ + 1]
    /\ UNCHANGED <<transport, inCnt, readerPc, writerPc, done, sessThread,
                   downCnt, downOpen, sawClosed>>
    /\ UNCHANGED notLoop

\* Bridge: select() reports channel c disconnected and empty; handle()
\* returns Error::ChanClosed(c), run() logs it and calls handle() again
BridgeChanClosed(c) ==
    /\ downCnt[c] = 0
    /\ ~downOpen[c]
    /\ sawClosed' = [sawClosed EXCEPT ![c] = TRUE]
    /\ UNCHANGED <<transport, inCnt, readerPc, writerPc, done, sessThread,
                   downCnt, downOpen, upCnt>>
    /\ UNCHANGED notLoop

\* state after ctrl_create: every session connected, both tasks spawned
InitLoop ==
    /\ transport = [c \in Ctrls |-> "open"]
    /\ inCnt = [c \in Ctrls |-> 0]
    /\ readerPc = [c \in Ctrls |-> "sleep"]
    /\ writerPc = [c \in Ctrls |-> "recv"]
    /\ done = [c \in Ctrls |-> FALSE]
    /\ sessThread = [c \in Ctrls |-> "event_loop"]
    /\ downCnt = [c \in Ctrls |-> 0]
    /\ downOpen = [c \in Ctrls |-> TRUE]
    /\ upCnt = [c \in Ctrls |-> 0]
    /\ sawClosed = [c \in Ctrls |-> FALSE]

\* the steps of the program's own threads
LoopProgramStep(c) ==
    \/ ReaderEnterRead(c)
    \/ ReaderItem(c)
    \/ ReaderEof(c)
    \/ WriterRecv(c)
    \/ \E ok \in BOOLEAN : WriterSend(c, ok)
    \/ ThreadReturns(c)
    \/ \E n \in 0..1 : BridgeRecv(c, n)
    \/ BridgeChanClosed(c)

NextLoop ==
    \E c \in Ctrls :
        \/ ControllerData(c)
        \/ TransportCloses(c)
        \/ BridgeMqttCommand(c)
        \/ LoopProgramStep(c)

\* ---------------------------------------------------------------------------
\* The Bridge: handle() multiplexes the inbound channels of the controllers
\* and the inbound channel of the MQTT session (bin/esera-bridge.rs).
\*
\* The sessions of this part stay connected (their loss is the part above),
\* and MqttConnection::send hands every message to the client's request
\* queue, which the receive thread never drops.

Buses == 1..NumBus

\* "ESERA/<contno>/<name>/<item><ch>" (DeviceInfo::fmt); ch = 0: no number
Topic(contno, name, item, ch) == <<contno, name, item, ch>>

\* the payloads of inbound publishes
Payloads == {"1", "x"}

\* str::parse::<u8> and str::parse::<f32> of a payload; -1: parse error
ParseNumber(pl) == IF pl = "1" THEN 1 ELSE -1

NoTwoWay == [mqtt |-> <<>>, ow |-> <<>>]

\* a device as far as the Bridge's routing depends on it
Dev(kind, name) == [kind |-> kind, name |-> name]
UnknownDev == Dev("Unknown", "")

\* the device lists a controller answers GET,OWB,LISTALL1 with: two dimmers
\* that were given the same name, a sensor and a dimmer
DevLists ==
    { <<Dev("Dimmer", "K1"), Dev("Dimmer", "K1")>>,
      <<Dev("TempHum", "K2"), Dev("Dimmer", "K1")>> }

\* the numbers the controllers report in their CSI: in the order of the
\* command line, or in the reverse order
ContnoMaps == { [c \in Buses |-> c], [c \in Buses |-> NumBus + 1 - c] }

\* the slots such a list fills; slot 0 is the controller's
ListSlots == 1..2
BusSlots == {0} \cup ListSlots
SlotSeq == [s \in 1..Cardinality(BusSlots) |-> s - 1]

\* Device::register_mqtt of the variants; the default is the empty list
RegisterMqtt(dev, contno) ==
    CASE dev.kind = "Controller2" ->
           [i \in 1..5 |-> [topic |-> Topic(contno, dev.name, "set/ch", i),
                            token |-> i]]
           \o <<[topic |-> Topic(contno, dev.name, "set/ana", 0), token |-> 6]>>
      [] dev.kind = "Dimmer" ->
           <<[topic |-> Topic(contno, dev.name, "set/ch", 1), token |-> 1],
             [topic |-> Topic(contno, dev.name, "set/ch", 2), token |-> 2]>>
      [] dev.kind = "Switch8" ->
           [i \in 1..8 |-> [topic |-> Topic(contno, dev.name, "/set/ch", i),
                            token |-> i - 1]]
      [] OTHER -> <<>>

\* Device::handle_mqtt of the variants: the lines for the controller, or the
\* validation error
HandleMqtt(dev, payload, token) ==
    CASE dev.kind = "Controller2" ->
           IF token \in 1..5 THEN [err |-> FALSE, ow |-> <<"SET,SYS,OUT">>]
           ELSE IF token = 6
                THEN IF ParseNumber(payload) \in 0..10
                     THEN [err |-> FALSE, ow |-> <<"SET,SYS,OUTA">>]
                     ELSE [err |-> TRUE, ow |-> <<>>]
                ELSE [err |-> FALSE, ow |-> <<>>]
      [] dev.kind = "Dimmer" ->
           IF ParseNumber(payload) = -1 THEN [err |-> TRUE, ow |-> <<>>]
           ELSE IF token \in 1..2 /\ ParseNumber(payload) \in 0..31
                THEN [err |-> FALSE, ow |-> <<"SET,OWD,DIM">>]
                ELSE [err |-> FALSE, ow |-> <<>>]
      [] OTHER -> [err |-> FALSE, ow |-> <<>>]

\* the recipient takes the place of the ones the topic had
RoutesRegisterReplace(r, topic, id) ==
    [routes |-> [t \in DOMAIN r \cup {topic} |->
                    IF t = topic THEN <<id>> ELSE r[t]],
     sub |-> IF topic \in DOMAIN r THEN <<>> ELSE <<topic>>]

\* Routes::register: a topic named for the first time yields a Subscribe
RoutesRegister(r, topic, id) ==
    IF topic \in DOMAIN r
    THEN [routes |-> [r EXCEPT ![topic] = Append(@, id)], sub |-> <<>>]
    ELSE [routes |-> [t \in DOMAIN r \cup {topic} |->
                         IF t = topic THEN <<id>> ELSE r[t]],
          sub |-> <<topic>>]

\* Routes::lookup: the recipients of exactly this topic
RoutesLookup(r, topic) == IF topic \in DOMAIN r THEN r[topic] ELSE <<>>

\* Routes::subscriptions: one Subscribe per key of by_topic
RoutesSubscriptions(r) == DOMAIN r

\* Bus::register_mqtt: the registrations of the devices, slot by slot
RECURSIVE BusRegisterMqtt(_, _, _)
BusRegisterMqtt(devs, contno, slot) ==
    IF slot \notin DOMAIN devs THEN <<>>
    ELSE LET regs == RegisterMqtt(devs[slot], contno)
         IN  [i \in 1..Len(regs) |->
                [topic |-> regs[i].topic,
                 id |-> [loc |-> <<contno, slot>>, token |-> regs[i].token]]]
             \o BusRegisterMqtt(devs, contno, slot + 1)

\* the registrations entered into the routes one after the other
RECURSIVE RegisterAll(_, _)
RegisterAll(r, regs) ==
    IF regs = <<>> THEN [routes |-> r, subs |-> <<>>]
    ELSE LET one == RoutesRegister(r, Head(regs).topic, Head(regs).id)
             rest == RegisterAll(one.routes, Tail(regs))
         IN  [routes |-> rest.routes, subs |-> one.sub \o rest.subs]

Configured(dev) == dev.kind # "Unknown"

\* the messages a TwoWay holds, marked with the inbound item they answer
MqttOut(type, topic, src) == [type |-> type, topic |-> topic, src |-> src]
OwOut(line, loc, src) == [line |-> line, loc |-> loc, src |-> src]

\* Bus::announce: the discovery documents of the configured devices (the
\* documents of one device travel as one message here)
BusAnnounce(devs, contno, src) ==
    LET conf == SelectSeq(SlotSeq, LAMBDA s : Configured(devs[s]))
    IN  [i \in 1..Len(conf) |->
            MqttOut("Pub", Topic(contno, devs[conf[i]].name, "config", 0), src)]

\* Bus::init: the start-up lines of the configured devices; only the
\* controller has some
BusInit(devs, contno, src) ==
    IF devs[0].kind = "Controller2"
    THEN <<OwOut("SET,SYS,OUTA,500", <<contno, 0>>, src),
           OwOut("GET,SYS,DIO", <<contno, 0>>, src)>>
    ELSE <<>>

\* an item of a controller's inbound channel
Event(kind, no, contno, devs, slot) ==
    [kind |-> kind, no |-> no, contno |-> contno, devs |-> devs, slot |-> slot]

\* Bus::handle_1wire(resp, routes): the TwoWay and what becomes of the bus
\* and the routes
BusHandle1Wire(c, ev) ==
    LET src == <<c, ev.no>>
        same == [tw |-> NoTwoWay, contno |-> busContno[c],
                 devs |-> busDev[c], routes |-> routes]
    IN
    CASE ev.kind = "CSI" ->
           \* set_controller: slot 0 becomes the controller, which announces
           LET devs == [busDev[c] EXCEPT ![0] = Dev("Controller2", "SYS")]
           IN  [same EXCEPT
                  !.contno = ev.contno,
                  !.devs = devs,
                  !.tw = [mqtt |-> <<MqttOut("Pub",
                                       Topic(ev.contno, "SYS", "config", 0), src)>>,
                          ow |-> <<>>]]
      [] ev.kind = "List3" ->
           \* populate, the routes of the bus, init and announce
           LET devs == [s \in BusSlots |->
                          IF s = 0 THEN busDev[c][0] ELSE ev.devs[s]]
               reg == RegisterAll(routes,
                                  BusRegisterMqtt(devs, busContno[c], 0))
               subs == [i \in 1..Len(reg.subs) |->
                          MqttOut("Sub", reg.subs[i], src)]
           IN  [same EXCEPT
                  !.devs = devs,
                  !.routes = reg.routes,
                  !.tw = [mqtt |-> subs \o BusAnnounce(devs, busContno[c], src),
                          ow |-> BusInit(devs, busContno[c], src)]]
      [] ev.kind = "Devstatus" ->
           \* the device the bus address belongs to publishes the value
           IF Configured(busDev[c][ev.slot])
           THEN [same EXCEPT
                   !.tw = [mqtt |-> <<MqttOut("Pub",
                                        Topic(busContno[c],
                                              busDev[c][ev.slot].name, "in", 0),
                                        src)>>,
                           ow |-> <<>>]]
           ELSE same
      [] OTHER -> same

\* crossbeam Receiver::recv: the oldest item of the channel
ChanRecvNewest(ch) == [item |-> ch[Len(ch)], rest |-> SubSeq(ch, 1, Len(ch) - 1)]

ChanRecv(ch) == [item |-> Head(ch), rest |-> Tail(ch)]

\* bus.iter().position(|b| b.contno == contno); 0: none
BusPosition(contno) ==
    IF \E i \in Buses : busContno[i] = contno
    THEN CHOOSE i \in Buses :
            /\ busContno[i] = contno
            /\ \A j \in Buses : busContno[j] = contno => i <= j
    ELSE 0

\* where handle() is once TwoWay::send has nothing left to send
AfterSend(tw, rcpts) ==
    IF tw.mqtt # <<>> \/ tw.ow # <<>> THEN "send"
    ELSE IF rcpts # <<>> THEN "recipients" ELSE "select"

\* ---- the environment of the Bridge ----

\* the number of items the sessions 1..n have queued
RECURSIVE QueuedBy(_)
QueuedBy(n) == IF n = 0 THEN 0 ELSE queued[n] + QueuedBy(n - 1)

\* the reader task of session c forwards a device status or an item that
\* failed to parse
SessionQueues(c, kind, slot) ==
    /\ bridgePc # "start"
    /\ QueuedBy(NumBus) < 2 * NumBus + MaxEvents
    /\ queued' = [queued EXCEPT ![c] = @ + 1]
    /\ down' = [down EXCEPT ![c] =
                  Append(@, Event(kind, queued[c] + 1, 0, <<>>, slot))]
    /\ UNCHANGED <<up, mqttIn, mqttSent, bridgePc, pending, target, recipients,
                   last, routes, busContno, busDev, arrivedMqtt, handled, due,
                   invoked>>
    /\ UNCHANGED notBridge

\* the topics publishes arrive for: channel 1 of a device named K1 on every
\* controller and the analog output of controller 1
PubTopics ==
    { Topic(cn, "K1", "set/ch", 1) : cn \in Buses }
        \cup { Topic(1, "SYS", "set/ana", 0) }

InMsg(type, topic, payload, no) ==
    [type |-> type, topic |-> topic, payload |-> payload, src |-> <<0, no>>]

NoTopic == <<0, "", "", 0>>

\* process_packet: a publish of the broker, or the notice after a connect-ack
MqttArrives(type, topic, payload) ==
    /\ bridgePc # "start"
    /\ arrivedMqtt < MaxMqttIn
    /\ arrivedMqtt' = arrivedMqtt + 1
    /\ mqttIn' = Append(mqttIn, InMsg(type, topic, payload, arrivedMqtt + 1))
    /\ UNCHANGED <<down, up, mqttSent, bridgePc, pending, target, recipients,
                   last, routes, busContno, busDev, queued, handled, due,
                   invoked>>
    /\ UNCHANGED notBridge

\* ---- handle() ----

\* select() chose the channel of controller c: the item is received and
\* given to Bus::handle_1wire; an Err item is logged
BridgeTakeCtrl(c) ==
    /\ bridgePc = "select"
    /\ down[c] # <<>>
    /\ LET ev == ChanRecv(down[c]).item
           r == BusHandle1Wire(c, ev)
       IN  /\ down' = [down EXCEPT ![c] = ChanRecv(down[c]).rest]
           /\ handled' = [handled EXCEPT ![c] = Append(@, ev.no)]
           /\ last' = [type |-> "ow", topic |-> NoTopic, payload |-> "",
                       src |-> <<c, ev.no>>]
           /\ busContno' = [busContno EXCEPT ![c] = r.contno]
           /\ busDev' = [busDev EXCEPT ![c] = r.devs]
           /\ routes' = r.routes
           /\ pending' = r.tw
           /\ target' = c
           /\ due' = [s \in DOMAIN due \cup {<<c, ev.no>>} |->
                        IF s = <<c, ev.no>> THEN Len(r.tw.mqtt) ELSE due[s]]
           /\ bridgePc' = AfterSend(r.tw, <<>>)
    /\ UNCHANGED <<up, mqttIn, mqttSent, recipients, queued, arrivedMqtt,
                   invoked>>
    /\ UNCHANGED notBridge

\* TwoWay::send, `for msg in self.mqtt`: the messages go to the MQTT session
\* in the order of the list
BridgeSendMqtt ==
    /\ bridgePc = "send"
    /\ pending.mqtt # <<>>
    /\ mqttSent' = [mqttSent EXCEPT ![last.src[1]] = @ \o pending.mqtt]
    /\ pending' = [pending EXCEPT !.mqtt = <<>>]
    /\ bridgePc' = AfterSend(pending', recipients)
    /\ UNCHANGED <<down, up, mqttIn, target, recipients, last, routes,
                   busContno, busDev, queued, arrivedMqtt, handled, due,
                   invoked>>
    /\ UNCHANGED notBridge

\* TwoWay::send, `for cmd in self.ow`: the lines go to the sender it was given
BridgeSendOw ==
    /\ bridgePc = "send"
    /\ pending.mqtt = <<>>
    /\ pending.ow # <<>>
    /\ up' = [up EXCEPT ![target] = @ \o pending.ow]
    /\ pending' = [pending EXCEPT !.ow = <<>>]
    /\ bridgePc' = AfterSend(pending', recipients)
    /\ UNCHANGED <<down, mqttIn, mqttSent, target, recipients, last, routes,
                   busContno, busDev, queued, arrivedMqtt, handled, due,
                   invoked>>
    /\ UNCHANGED notBridge

\* select() chose the MQTT channel: only a publish has an effect, its
\* recipients are looked up
BridgeTakeMqtt ==
    /\ bridgePc = "select"
    /\ mqttIn # <<>>
    /\ LET msg == ChanRecv(mqttIn).item
           rcpts == IF msg.type = "Pub" THEN RoutesLookup(routes, msg.topic)
                    ELSE <<>>
       IN  /\ mqttIn' = ChanRecv(mqttIn).rest
           /\ last' = msg
           /\ recipients' = rcpts
           /\ invoked' = <<>>
           /\ bridgePc' = AfterSend(NoTwoWay, rcpts)
    /\ UNCHANGED <<down, up, mqttSent, pending, target, routes, busContno,
                   busDev, queued, arrivedMqtt, handled, due>>
    /\ UNCHANGED notBridge

\* one round of `for ((contno, dev), tok) in routes.lookup(topic)`: the
\* device's handle_mqtt is called; its error leaves handle() through `?`
BridgeRecipient ==
    /\ bridgePc = "recipients"
    /\ recipients # <<>>
    /\ LET id == Head(recipients)
           i == BusPosition(id.loc[1])
       IN  IF i = 0
           THEN /\ recipients' = Tail(recipients)
                /\ bridgePc' = AfterSend(NoTwoWay, recipients')
                /\ UNCHANGED <<pending, target, invoked>>
           ELSE LET r == HandleMqtt(busDev[i][id.loc[2]], last.payload, id.token)
                    tw == [mqtt |-> <<>>,
                           ow |-> [k \in 1..Len(r.ow) |->
                                     OwOut(r.ow[k], id.loc, last.src)]]
                IN  /\ invoked' = Append(invoked, id)
                    /\ IF r.err
                       THEN /\ recipients' = <<>>
                            /\ bridgePc' = "select"
                            /\ UNCHANGED <<pending, target>>
                       ELSE /\ recipients' = Tail(recipients)
                            /\ pending' = tw
                            /\ target' = i
                            /\ bridgePc' = AfterSend(tw, recipients')
    /\ UNCHANGED <<down, up, mqttIn, mqttSent, last, routes, busContno,
                   busDev, queued, arrivedMqtt, handled, due>>
    /\ UNCHANGED notBridge

\* before run() has made the sessions; the buses are Bus::default()
InitBridge ==
    /\ down = [c \in Buses |-> <<>>]
    /\ queued = [c \in Buses |-> 0]
    /\ up = [c \in Buses |-> <<>>]
    /\ mqttIn = <<>>
    /\ mqttSent = [o \in {0} \cup Buses |-> <<>>]
    /\ bridgePc = "start"
    /\ pending = NoTwoWay
    /\ target = 0
    /\ recipients = <<>>
    /\ last = InMsg("none", NoTopic, "", 0)
    /\ routes = [t \in {} |-> <<>>]
    /\ busContno = [c \in Buses |-> 0]
    /\ busDev = [c \in Buses |-> [s \in BusSlots |-> UnknownDev]]
    /\ arrivedMqtt = 0
    /\ handled = [c \in Buses |-> <<>>]
    /\ due = [s \in {} |-> 0]
    /\ invoked = <<>>

\* run() up to the main loop: ctrl_loop makes every session, which queues
\* its CSI and its device list; then the MQTT session is made
BridgeStarts(cn, ls) ==
    /\ bridgePc = "start"
    /\ bridgePc' = "select"
    /\ down' = [c \in Buses |->
                  <<Event("CSI", 1, cn[c], <<>>, 0),
                    Event("List3", 2, cn[c], ls[c], 0)>>]
    /\ queued' = [c \in Buses |-> 2]
    /\ UNCHANGED <<up, mqttIn, mqttSent, pending, target, recipients, last,
                   routes, busContno, busDev, arrivedMqtt, handled, due,
                   invoked>>
    /\ UNCHANGED notBridge

NextBridge ==
    \/ \E cn \in ContnoMaps, ls \in [Buses -> DevLists] : BridgeStarts(cn, ls)
    \/ \E c \in Buses : SessionQueues(c, "Devstatus", 1)
    \/ \E c \in Buses : SessionQueues(c, "ErrItem", 0)
    \/ \E topic \in PubTopics, payload \in Payloads :
         MqttArrives("Pub", topic, payload)
    \/ MqttArrives("Reconnected", NoTopic, "")
    \/ \E c \in Buses : BridgeTakeCtrl(c)
    \/ BridgeSendMqtt
    \/ BridgeSendOw
    \/ BridgeTakeMqtt
    \/ BridgeRecipient

\* ---------------------------------------------------------------------------
\* Universe::populate, Bus::set_controller and Bus::register_1wire (bus.rs),
\* for the Bus of one controller.

\* the controller number of the Bus
BusContno == 1

\* the slots of Bus.devices that device lists of up to MaxItems entries reach;
\* slot 0 is the controller's
Slots == 0..MaxItems

\* what a list entry says of a device, <<serial, status, article number>>:
\* an air-quality sensor that is online, the same serial offline under the
\* article of a temperature/humidity sensor, a temperature/humidity sensor
\* and an air-quality sensor with another serial
ItemKinds ==
    { <<"A", "online", "11151">>, <<"A", "offline", "11150">>,
      <<"B", "online", "11150">>, <<"C", "online", "11151">> }

\* a bus id: <<"OWD", n>> is "OWD<n>", <<"SYS", 0>> is "SYS"
Owd(n) == <<"OWD", n>>

DeviceInfo(busid, serno, status, artno) ==
    [contno |-> BusContno, busid |-> busid, serno |-> serno,
     status |-> status, artno |-> artno]

\* Model::select: the variant that goes with an article number
ModelSelect(info) ==
    [variant |-> CASE info.artno = "11150" -> "TempHum"
                   [] info.artno = "11151" -> "AirQuality"
                   [] info.artno = "11216" -> "BinarySensor"
                   [] info.artno \in {"11220", "11228", "11229"} -> "Switch8"
                   [] info.artno = "11322" -> "Hub"
                   [] info.artno = "11340" -> "Controller2"
                   [] OTHER -> "Unknown",
     info |-> info]

\* Model::default(): Unknown with DeviceInfo::default()
DefaultModel ==
    [variant |-> "Unknown",
     info |-> [contno |-> 0, busid |-> <<"", 0>>, serno |-> "",
               status |-> "unconfigured", artno |-> ""]]

\* the device lists: entry i is the device "OWD<i>"
ListItems(i) == { DeviceInfo(Owd(i), k[1], k[2], k[3]) : k \in ItemKinds }

RECURSIVE ListsOf(_)
ListsOf(n) ==
    IF n = 0 THEN { <<>> }
    ELSE { Append(l, it) : l \in ListsOf(n - 1), it \in ListItems(n) }

List3s == UNION { ListsOf(n) : n \in 1..MaxItems }

\* the kinds of the lists with gaps: an air-quality sensor, a temperature and
\* humidity sensor, an 8-channel switch
EnumKinds ==
    { <<"A", "online", "11151">>, <<"B", "online", "11150">>,
      <<"D", "online", "11220">> }

\* the device lists whose bus ids rise from lo on and may leave numbers out,
\* as "OWD1", "OWD2", "OWD4" do
RECURSIVE EnumListsFrom(_)
EnumListsFrom(lo) ==
    { <<>> } \cup
    UNION { { <<DeviceInfo(Owd(n), k[1], k[2], k[3])>> \o l :
                k \in EnumKinds, l \in EnumListsFrom(n + 1) } :
            n \in lo..MaxItems }

EnumLists == EnumListsFrom(1) \ { <<>> }

\* Device::register_1wire of the variants: the bus addresses of a device,
\* <<busid, k>> is "<busid>_<k>"
Register1Wire(dev) ==
    CASE dev.variant = "TempHum" -> { <<dev.info.busid, k>> : k \in {1, 3, 4} }
      [] dev.variant = "AirQuality" ->
           { <<dev.info.busid, k>> : k \in {1, 3, 4, 5} }
      [] dev.variant = "Switch8" -> { <<dev.info.busid, k>> : k \in {1, 3} }
      [] dev.variant = "Controller2" ->
           { <<<<"SYS", 1>>, 1>>, <<<<"SYS", 2>>, 1>>, <<<<"SYS", 3>>, 0>> }
      [] OTHER -> {}

\* HashMap::extend with the addresses of the device in one slot
ExtendWith(index, devs, slot) ==
    [a \in Register1Wire(devs[slot]) |-> slot] @@ index

\* Bus::register_1wire: the addresses of every slot, slot 0 first, are put
\* into the index the Bus has
RECURSIVE BusRegister1Wire(_, _, _)
BusRegister1Wire(index, devs, slot) ==
    IF slot \notin DOMAIN devs THEN index
    ELSE BusRegister1Wire(ExtendWith(index, devs, slot), devs, slot + 1)

\* Device::set_status: the status of the list entry is taken over
SetStatus(dev, status) == [dev EXCEPT !.info.status = status]

\* a list entry goes to the first slot that holds no device yet
FirstFreeSlot(devs, i) ==
    IF \E s \in 1..MaxItems : devs[s].info.serno = ""
    THEN CHOOSE s \in 1..MaxItems :
            /\ devs[s].info.serno = ""
            /\ \A t \in 1..(s - 1) : devs[t].info.serno # ""
    ELSE i

\* populate: entry i of the list belongs to slot i (`devices[i + 1]`, i from 0)
ListSlot(devs, i) == i

\* the device of the slot and the list entry differ in the article number
ArtnoDiffers(dev, entry) == dev.info.artno # entry.artno

\* populate: `slot.info().serno != dev.serno`
SernoDiffers(dev, entry) == dev.info.serno # entry.serno

\* populate, the loop over the list: the device of a slot is replaced if the
\* serial differs; the status is set in any case
RECURSIVE PopulateSlots(_, _, _)
PopulateSlots(devs, lst, i) ==
    IF i > Len(lst) THEN devs
    ELSE LET slot == ListSlot(devs, i)
             dev == IF SernoDiffers(devs[slot], lst[i])
                    THEN ModelSelect(lst[i])
                    ELSE devs[slot]
         IN  PopulateSlots([devs EXCEPT ![slot] = SetStatus(dev, lst[i].status)],
                           lst, i + 1)

\* Universe.topics after the registrations of the bus are inserted
RECURSIVE TopicsInsert(_, _)
TopicsInsert(tp, regs) ==
    IF regs = <<>> THEN tp
    ELSE TopicsInsert((Head(regs).topic :> Head(regs).id) @@ tp, Tail(regs))

\* format!("{}", busid): the bus id as it stands in a topic
BusidName(busid) ==
    CASE busid[1] = "SYS" -> "SYS"
      [] busid[1] = "OWD" -> <<"OWD1", "OWD2", "OWD3", "OWD4">>[busid[2]]
      [] OTHER -> ""

\* the devices as Bus::register_mqtt sees them: a device without a name goes
\* by its bus id
MqttDevs(devs) ==
    [s \in DOMAIN devs |-> Dev(devs[s].variant, BusidName(devs[s].info.busid))]

\* Universe::set_controller: the Bus comes into being, slot 0 is the controller
UniverseSetController(serno) ==
    /\ ~asserted
    /\ hasBus' = TRUE
    /\ devices' = [devices EXCEPT ![0] =
                     ModelSelect(DeviceInfo(<<"SYS", 0>>, serno, "online", "11340"))]
    /\ repeat' = 0
    /\ UNCHANGED <<busaddrs, topics, lastList, asserted, enumerated>>

SetController(serno) ==
    /\ UniverseSetController(serno)
    /\ UNCHANGED notBus

\* Universe::populate before any CSI: the assertion fails
UniversePopulateAsserts ==
    /\ ~asserted
    /\ ~hasBus
    /\ asserted' = TRUE
    /\ UNCHANGED <<hasBus, devices, busaddrs, topics, lastList, repeat,
                   enumerated>>

PopulateAsserts(lst) ==
    /\ UniversePopulateAsserts
    /\ UNCHANGED notBus

\* Universe::populate
UniversePopulate(lst) ==
    /\ ~asserted
    /\ hasBus
    /\ devices' = PopulateSlots(devices, lst, 1)
    /\ busaddrs' = BusRegister1Wire(busaddrs, devices', 0)
    /\ topics' = TopicsInsert(topics, BusRegisterMqtt(MqttDevs(devices'),
                                                      BusContno, 0))
    /\ lastList' = lst
    /\ repeat' = IF repeat >= 1 /\ lst = lastList THEN 2 ELSE 1
    /\ UNCHANGED <<hasBus, asserted>>

\* Universe::populate with a list of List3s, any number of times
Populate(lst) ==
    /\ UniversePopulate(lst)
    /\ UNCHANGED enumerated
    /\ UNCHANGED notBus

\* Universe::populate with a list of EnumLists, MaxEnum times at most
PopulateCounted(lst) ==
    /\ enumerated < MaxEnum
    /\ UniversePopulate(lst)
    /\ enumerated' = enumerated + 1
    /\ UNCHANGED notBus

\* Universe::default()
InitBus ==
    /\ hasBus = FALSE
    /\ devices = [s \in Slots |-> DefaultModel]
    /\ busaddrs = [a \in {} |-> 0]
    /\ topics = [t \in {} |-> 0]
    /\ lastList = <<>>
    /\ repeat = 0
    /\ asserted = FALSE
    /\ enumerated = 0

NextBus ==
    \/ \E serno \in {"C1"} : SetController(serno)
    \/ \E lst \in List3s : PopulateAsserts(lst)
    \/ \E lst \in List3s : Populate(lst)

NextEnum ==
    \/ \E serno \in {"C1"} : SetController(serno)
    \/ \E lst \in EnumLists : PopulateCounted(lst)

\* ---------------------------------------------------------------------------
\* Routes (routing.rs) and its callers

\* topics as the callers name them, level by level: "a/b", "a/+", "a/#"
RtTopics == { <<"a", "b">>, <<"a", "+">>, <<"a", "#">> }

\* Id<I>: (index, token)
RtIds == { [loc |-> <<1, 1>>, token |-> 0], [loc |-> <<1, 2>>, token |-> 0] }

NoRet == [call |-> "none", topic |-> <<>>, sub |-> <<>>, ids |-> <<>>]

\* Routes::register
Register(topic, id) ==
    /\ Len(regLog) < MaxReg
    /\ byTopic' = RoutesRegister(byTopic, topic, id).routes
    /\ ret' = [NoRet EXCEPT !.call = "register", !.topic = topic,
                            !.sub = RoutesRegister(byTopic, topic, id).sub]
    /\ regLog' = Append(regLog, <<topic, id>>)
    /\ UNCHANGED notRt

\* Routes::lookup
Lookup(topic) ==
    /\ ret' = [NoRet EXCEPT !.call = "lookup", !.topic = topic,
                            !.ids = RoutesLookup(byTopic, topic)]
    /\ UNCHANGED <<byTopic, regLog>>
    /\ UNCHANGED notRt

\* an iterator that yields every key once for each of its recipients
KeysPerRecipient(r) ==
    LET n == Cardinality({ e \in (DOMAIN r) \X (1..MaxReg) : e[2] <= Len(r[e[1]]) })
    IN  { f \in [1..n -> DOMAIN r] :
            \A t \in DOMAIN r : Cardinality({ i \in 1..n : f[i] = t }) = Len(r[t]) }

\* by_topic.keys(): every key once, in an order the HashMap chooses
KeysIter(r) ==
    { f \in [1..Cardinality(RoutesSubscriptions(r)) -> RoutesSubscriptions(r)] :
        \A i, j \in DOMAIN f : f[i] = f[j] => i = j }

\* Routes::subscriptions
Subscriptions ==
    /\ \E keys \in KeysIter(byTopic) :
          ret' = [NoRet EXCEPT !.call = "subscriptions", !.sub = keys]
    /\ UNCHANGED <<byTopic, regLog>>
    /\ UNCHANGED notRt

\* Routes::new()
InitRt ==
    /\ byTopic = [t \in {} |-> <<>>]
    /\ regLog = <<>>
    /\ ret = NoRet

NextRt ==
    \/ \E topic \in RtTopics, id \in RtIds : Register(topic, id)
    \/ \E topic \in RtTopics : Lookup(topic)
    \/ Subscriptions

\* ---------------------------------------------------------------------------
\* receive, munch and next() over bytes (controller.rs)

\* the bytes of a stream: "V" stands for the text of a valid INF line without
\* its line ending ("1_INF|21:28:53"), "n" for the line ending, "g" for an
\* ASCII byte no response begins with, "x" for a byte that is not UTF-8
Bytes == { "V", "g", "x", "n" }

RECURSIVE BytesOf(_)
BytesOf(n) ==
    IF n = 0 THEN { <<>> }
    ELSE { Append(b, c) : b \in BytesOf(n - 1), c \in Bytes }

Inputs == UNION { BytesOf(n) : n \in 1..MaxBytes }

\* String::from_utf8_lossy: a byte that is not UTF-8 becomes U+FFFD, "u"
Utf8Lossy(bytes) ==
    [i \in DOMAIN bytes |-> IF bytes[i] = "x" THEN "u" ELSE bytes[i]]

\* the bytes a char takes in a String
Utf8Len(c) == IF c = "u" THEN 3 ELSE 1

\* parser::parse on the start of the buffer (streaming parsers): the chars
\* consumed by a response, "incomplete", or "error"
Parse(p) ==
    IF p = <<>> THEN [kind |-> "incomplete", used |-> 0]
    ELSE IF p[1] = "V"
         THEN IF Len(p) = 1 THEN [kind |-> "incomplete", used |-> 0]
              ELSE IF p[2] = "n" THEN [kind |-> "ok", used |-> 2]
                   ELSE [kind |-> "error", used |-> 0]
         ELSE [kind |-> "error", used |-> 0]

\* the last line ending of the buffer
RFindNewline(p) ==
    IF \E i \in DOMAIN p : p[i] = "n"
    THEN CHOOSE i \in DOMAIN p : p[i] = "n" /\ \A j \in (i + 1)..Len(p) : p[j] # "n"
    ELSE 0

\* partial.find('\n'): the index of the first line ending, 0 for None
FindNewline(p) ==
    IF \E i \in DOMAIN p : p[i] = "n"
    THEN CHOOSE i \in DOMAIN p : p[i] = "n" /\ \A j \in 1..(i - 1) : p[j] # "n"
    ELSE 0

\* munch: Some(Ok), Some(Err) or None, and the buffer it leaves;
\* replace_range(0..1) panics if byte 1 is not the end of the first char
Munch(p) ==
    LET r == Parse(p)
        nl == FindNewline(p)
    IN  CASE r.kind = "ok" ->
               [res |-> "inf", partial |-> SubSeq(p, r.used + 1, Len(p))]
          [] r.kind = "incomplete" -> [res |-> "none", partial |-> p]
          [] OTHER ->
               IF nl > 0
               THEN [res |-> "err", partial |-> SubSeq(p, nl + 1, Len(p))]
               ELSE IF Utf8Len(p[1]) = 1
                    THEN [res |-> "err", partial |-> Tail(p)]
                    ELSE [res |-> "panic", partial |-> p]

\* receive: `while let Some(resp) = munch(&mut partial) { queue.push_back }`
RECURSIVE Drain(_, _)
Drain(p, q) ==
    LET m == Munch(p)
    IN  CASE m.res = "none" -> [partial |-> p, queue |-> q, panic |-> FALSE]
          [] m.res = "panic" -> [partial |-> p, queue |-> q, panic |-> TRUE]
          [] OTHER -> Drain(m.partial, Append(q, m.res))

\* the stream is a Cursor over the given bytes
CursorHolds(bytes) ==
    /\ input = <<>>
    /\ yielded = <<>>
    /\ input' = bytes
    /\ cursor' = bytes
    /\ UNCHANGED <<partial, backlog, yielded, reads, panicked>>
    /\ UNCHANGED notRx

\* get, the queue is empty: receive() reads n bytes and munches them
NextReceive(n) ==
    /\ ~panicked
    /\ backlog = <<>>
    /\ n \in 1..Len(cursor)
    /\ LET d == Drain(partial \o Utf8Lossy(SubSeq(cursor, 1, n)), backlog)
       IN  /\ partial' = d.partial
           /\ backlog' = d.queue
           /\ panicked' = d.panic
    /\ cursor' = SubSeq(cursor, n + 1, Len(cursor))
    /\ reads' = reads + 1
    /\ UNCHANGED <<input, yielded>>
    /\ UNCHANGED notRx

\* get, the queue is empty and read() returns 0: None
NextEnd ==
    /\ ~panicked
    /\ backlog = <<>>
    /\ cursor = <<>>
    /\ \A i \in DOMAIN yielded : yielded[i] # "end"
    /\ yielded' = Append(yielded, "end")
    /\ UNCHANGED <<input, cursor, partial, backlog, reads, panicked>>
    /\ UNCHANGED notRx

\* get, the queue holds a result: pop_front
NextPop ==
    /\ ~panicked
    /\ backlog # <<>>
    /\ yielded' = Append(yielded, Head(backlog))
    /\ backlog' = Tail(backlog)
    /\ UNCHANGED <<input, cursor, partial, reads, panicked>>
    /\ UNCHANGED notRx

\* ControllerConnection::from_stream
InitRx ==
    /\ input = <<>>
    /\ cursor = <<>>
    /\ partial = <<>>
    /\ backlog = <<>>
    /\ yielded = <<>>
    /\ reads = 0
    /\ panicked = FALSE

NextRx ==
    \/ \E bytes \in Inputs : CursorHolds(bytes)
    \/ \E n \in 1..MaxBytes : NextReceive(n)
    \/ NextEnd
    \/ NextPop

\* ---------------------------------------------------------------------------
\* The start of a session (controller.rs setup, csi, list; ctrl_loop)

\* the commands of setup(), csi() and list() as the code sends them
Cmds == <<"SET,SYS,DATAPRINT,1", "SET,SYS,DATE", "SET,SYS,TIME",
          "SET,SYS,DATATIME,20", "SET,SYS,SAVE", "GET,SYS,INFO",
          "GET,OWB,LISTALL1">>

\* the response each of them is answered with and pick! waits for
Acks == <<"Dataprint", "Date", "Time", "Datatime", "Save", "CSI", "List3">>

\* the number of the next line of the controller
NextLine == answered + nErr + nKal + 1

\* the controller answers the oldest command not answered yet
CtrlAcks ==
    /\ ~hsClosed
    /\ answered < Len(sent)
    /\ hsWire' = Append(hsWire, Msg(NextLine, [kind |-> Acks[answered + 1],
                                               code |-> 0]))
    /\ answered' = answered + 1
    /\ UNCHANGED <<stage, hsPc, sent, hsQueue, hsClosed, acked, hsDown, nErr,
                   nKal>>
    /\ UNCHANGED notHs

\* the controller answers it with an ERR line
CtrlRejects(code) ==
    /\ ~hsClosed
    /\ answered < Len(sent)
    /\ nErr < MaxErr
    /\ hsWire' = Append(hsWire, Msg(NextLine, [kind |-> "Err", code |-> code]))
    /\ answered' = answered + 1
    /\ nErr' = nErr + 1
    /\ UNCHANGED <<stage, hsPc, sent, hsQueue, hsClosed, acked, hsDown, nKal>>
    /\ UNCHANGED notHs

\* the controller sends a keepalive
CtrlKeepalive ==
    /\ ~hsClosed
    /\ nKal < MaxKal
    /\ hsWire' = Append(hsWire, Msg(NextLine, [kind |-> "Keepalive",
                                               code |-> 0]))
    /\ nKal' = nKal + 1
    /\ UNCHANGED <<stage, hsPc, sent, answered, hsQueue, hsClosed, acked,
                   hsDown, nErr>>
    /\ UNCHANGED notHs

\* the controller closes the connection
CtrlCloses ==
    /\ ~hsClosed
    /\ hsClosed' = TRUE
    /\ UNCHANGED <<stage, hsPc, sent, answered, hsWire, hsQueue, acked, hsDown,
                   nErr, nKal>>
    /\ UNCHANGED notHs

\* send_line of the command the session is at
OpenSend ==
    /\ hsPc = "send"
    /\ sent' = Append(sent, Cmds[stage])
    /\ hsPc' = "pick"
    /\ UNCHANGED <<stage, answered, hsWire, hsQueue, hsClosed, acked, hsDown,
                   nErr, nKal>>
    /\ UNCHANGED notHs

\* a pick! of setup() fails: `?` ends setup() and new(), no session;
\* csi() or list() fails: ctrl_loop sends the Err into the channel and goes on
PickFailed ==
    /\ hsPc' = (IF stage <= 5 THEN "failed"
                ELSE IF stage = 6 THEN "send" ELSE "running")
    /\ stage' = (IF stage = 6 THEN 7 ELSE stage)
    /\ hsDown' = (IF stage <= 5 THEN hsDown ELSE Append(hsDown, "Err"))

\* send_line fails on the closed connection: `?` as for a failed pick!
OpenSendFails ==
    /\ hsPc = "send"
    /\ hsClosed
    /\ PickFailed
    /\ UNCHANGED <<sent, answered, hsWire, hsQueue, hsClosed, acked, nErr,
                   nKal>>
    /\ UNCHANGED notHs

\* pick!: the scan of the queue finds the response, or a controller error
OpenPick ==
    /\ hsPc = "pick"
    /\ LET s == Scan(hsQueue, Acks[stage], 1) IN
         CASE s.hit = "found" ->
                /\ acked' = Append(acked, Acks[stage])
                /\ hsQueue' = RemoveAt(hsQueue, s.at)
                /\ hsPc' = (IF stage = 7 THEN "running" ELSE "send")
                /\ stage' = (IF stage = 7 THEN 7 ELSE stage + 1)
                /\ hsDown' = (IF stage <= 5 THEN hsDown
                              ELSE Append(hsDown, Acks[stage]))
           [] s.hit = "error" ->
                /\ PickFailed
                /\ UNCHANGED <<acked, hsQueue>>
           [] OTHER -> FALSE
    /\ UNCHANGED <<sent, answered, hsWire, hsClosed, nErr, nKal>>
    /\ UNCHANGED notHs

\* pick!: nothing found, receive() reads the next n responses
OpenReceive(n) ==
    /\ hsPc = "pick"
    /\ Scan(hsQueue, Acks[stage], 1).hit = "none"
    /\ n \in 1..Len(hsWire)
    /\ hsQueue' = hsQueue \o SubSeq(hsWire, 1, n)
    /\ hsWire' = SubSeq(hsWire, n + 1, Len(hsWire))
    /\ UNCHANGED <<stage, hsPc, sent, answered, hsClosed, acked, hsDown, nErr,
                   nKal>>
    /\ UNCHANGED notHs

\* pick!: nothing found, receive() returns Ok(false): Err(Disconnected)
OpenEof ==
    /\ hsPc = "pick"
    /\ Scan(hsQueue, Acks[stage], 1).hit = "none"
    /\ hsWire = <<>>
    /\ hsClosed
    /\ PickFailed
    /\ UNCHANGED <<sent, answered, hsWire, hsQueue, hsClosed, acked, nErr,
                   nKal>>
    /\ UNCHANGED notHs

\* event_loop, reader: get() with an empty queue calls receive()
StreamReceive(n) ==
    /\ hsPc = "running"
    /\ hsQueue = <<>>
    /\ n \in 1..Len(hsWire)
    /\ hsQueue' = SubSeq(hsWire, 1, n)
    /\ hsWire' = SubSeq(hsWire, n + 1, Len(hsWire))
    /\ UNCHANGED <<stage, hsPc, sent, answered, hsClosed, acked, hsDown, nErr,
                   nKal>>
    /\ UNCHANGED notHs

\* event_loop, reader: `down.send(item)` of the front of the queue
StreamItem ==
    /\ hsPc = "running"
    /\ hsQueue # <<>>
    /\ hsDown' = Append(hsDown, Head(hsQueue).kind)
    /\ hsQueue' = Tail(hsQueue)
    /\ UNCHANGED <<stage, hsPc, sent, answered, hsWire, hsClosed, acked, nErr,
                   nKal>>
    /\ UNCHANGED notHs

\* ControllerConnection::from_stream, before setup()
InitHs ==
    /\ stage = 1
    /\ hsPc = "send"
    /\ sent = <<>>
    /\ answered = 0
    /\ hsWire = <<>>
    /\ hsQueue = <<>>
    /\ hsClosed = FALSE
    /\ acked = <<>>
    /\ hsDown = <<>>
    /\ nErr = 0
    /\ nKal = 0

NextHs ==
    \/ CtrlAcks
    \/ \E code \in ErrCodes : CtrlRejects(code)
    \/ CtrlKeepalive
    \/ CtrlCloses
    \/ OpenSend
    \/ OpenSendFails
    \/ OpenPick
    \/ \E n \in 1..MaxChunk : OpenReceive(n)
    \/ OpenEof
    \/ \E n \in 1..MaxChunk : StreamReceive(n)
    \/ StreamItem

\* ---------------------------------------------------------------------------
\* The handlers of single devices (device/mod.rs, controller2.rs, switch8.rs)

\* val & (1 << bit)
BitMask(val, bit) == ((val \div (2 ^ bit)) % 2) * (2 ^ bit)

\* bool2str
Bool2Str(n) == IF n = 0 THEN "0" ELSE "1"

\* str2bool
Str2Bool(s) == s \in {"1", "on", "true"}

\* Option<i32>
None == [some |-> FALSE, val |-> 0]
Some(v) == [some |-> TRUE, val |-> v]

\* the message of channel bit+1
ChannelMsg(inout, val, bit) ==
    [topic |-> <<inout, bit + 1>>, payload |-> Bool2Str(BitMask(val, bit))]

\* digital_io: without a previous word one message per channel, with one a
\* message for each channel whose bit differs from it
DigitalIo(n, inout, val, previous) ==
    IF previous.some
    THEN SelectSeq([b \in 1..n |-> b - 1],
                   LAMBDA bit : BitMask(val, bit) # BitMask(previous.val, bit))
    ELSE [b \in 1..n |-> b - 1]

\* the messages digital_io builds for the channels it reports
DigitalIoMsgs(n, inout, val, previous) ==
    LET bits == DigitalIo(n, inout, val, previous)
    IN  [i \in DOMAIN bits |-> ChannelMsg(inout, val, bits[i])]

\* the words a device reports whose channels above n are all 0
Words(n) == 0..((2 ^ n) - 1)

\* the analogue values SYS3 reports, in centivolts
AnaLevels == {0, 500, 1000}

\* the devices of this part and the bus addresses they register
DevKinds == {"Controller2", "Switch8"}
DevAddrs(dev) ==
    IF dev = "Controller2" THEN {"SYS1_1", "SYS2_1", "SYS3"} ELSE {"1", "3"}
DevValues(dev, addr) ==
    CASE addr = "SYS1_1" -> Words(4)
      [] addr = "SYS2_1" -> Words(5)
      [] addr = "SYS3" -> AnaLevels
      [] OTHER -> Words(MaxBits)

NoCall == [dev |-> "none", op |-> "none", addr |-> "", val |-> 0, prev |-> -1,
           token |-> 0, payload |-> ""]
OwCall(dev, addr, val) ==
    [dev |-> dev, op |-> "1wire", addr |-> addr, val |-> val,
     prev |-> seenWord[dev], token |-> 0, payload |-> ""]
MqttCall(dev, token, payload) ==
    [dev |-> dev, op |-> "mqtt", addr |-> "", val |-> 0, prev |-> -1,
     token |-> token, payload |-> payload]

Returns(mqtt, ow) == [err |-> "none", mqtt |-> mqtt, ow |-> ow]
Fails(err) == [err |-> err, mqtt |-> <<>>, ow |-> <<>>]

\* Controller2::handle_1wire, Msg::Devstatus
Controller2Handle1Wire ==
    \E addr \in DevAddrs("Controller2") :
      \E val \in DevValues("Controller2", addr) :
        /\ devCall' = OwCall("Controller2", addr, val)
        /\ CASE addr = "SYS1_1" ->
                  /\ devOut' = Returns(
                         DigitalIoMsgs(4, "in", val, None)
                             \o DigitalIoMsgs(4, "button", val, Some(inputs)),
                         <<>>)
                  /\ inputs' = val
                  /\ seenWord' = [seenWord EXCEPT !["Controller2"] = val]
             [] addr = "SYS2_1" ->
                  /\ devOut' = Returns(DigitalIoMsgs(5, "out", val, None), <<>>)
                  /\ UNCHANGED <<inputs, seenWord>>
             [] OTHER ->
                  /\ devOut' = Returns(
                         <<[topic |-> <<"out/ana", 0>>, payload |-> val]>>, <<>>)
                  /\ UNCHANGED <<inputs, seenWord>>
        /\ UNCHANGED notDev

\* Switch8::handle_1wire, Response::Devstatus: the struct holds no word
Switch8Handle1Wire ==
    \E addr \in DevAddrs("Switch8") :
      \E val \in DevValues("Switch8", addr) :
        /\ devCall' = OwCall("Switch8", addr, val)
        /\ IF addr = "1"
           THEN /\ devOut' = Returns(DigitalIoMsgs(8, "in", val, None), <<>>)
                /\ seenWord' = [seenWord EXCEPT !["Switch8"] = val]
           ELSE /\ devOut' = Returns(DigitalIoMsgs(8, "out", val, None), <<>>)
                /\ UNCHANGED seenWord
        /\ UNCHANGED inputs
        /\ UNCHANGED notDev

\* payloads of set/ch<i>
SwitchPayloads == {"1", "on", "true", "0", "off"}

\* payloads of set/ana: text that is no number, or a decimal number, held in
\* half centivolts (1/200 V)
Text(t) == [num |-> FALSE, half |-> 0, text |-> t]
Number(h) == [num |-> TRUE, half |-> h, text |-> ""]
Around(half) == (half - MaxOver)..(half + MaxOver)
AnaPayloads ==
    {Text("x"), Text("")} \cup
    {Number(h) : h \in Around(0) \cup Around(1100) \cup Around(2000)}

\* float2centi: (f * 100.) as i32 cuts the fraction off
Float2Centi(half) == half \div 2

\* every number is let through
AnyNumberInRange(half) == TRUE

\* (0.0..=10.0).contains(&val)
InRange(half) == 0 <= half /\ half <= 2000

\* Controller2::handle_mqtt
Controller2HandleMqtt ==
    \E token \in 1..7 :
      \E pl \in IF token = 6 THEN AnaPayloads ELSE SwitchPayloads :
        /\ devCall' = MqttCall("Controller2", token, pl)
        /\ devOut' =
             IF token \in 1..5
             THEN Returns(<<>>, <<<<"SET,SYS,OUT", token,
                                   IF Str2Bool(pl) THEN 1 ELSE 0>>>>)
             ELSE IF token = 6
                  THEN IF ~pl.num THEN Fails("Value")
                       ELSE IF ~InRange(pl.half) THEN Fails("Value")
                       ELSE Returns(<<>>,
                                <<<<"SET,SYS,OUTA", Float2Centi(pl.half)>>>>)
                  ELSE Returns(<<>>, <<>>)
        /\ UNCHANGED <<inputs, seenWord>>
        /\ UNCHANGED notDev

InitDev ==
    /\ inputs = 0
    /\ seenWord = [d \in DevKinds |-> -1]
    /\ devCall = NoCall
    /\ devOut = Returns(<<>>, <<>>)

NextDev ==
    \/ Controller2Handle1Wire
    \/ Switch8Handle1Wire
    \/ Controller2HandleMqtt

\* ---------------------------------------------------------------------------
\* The Shutter (device/shutter.rs). Time is counted in half seconds; positions
\* are exact fractions, held as multiples of 1/PosScale percent. The Shutter
\* reads the clock only to take its distance from `start`, so the clock is
\* kept as the time since `start` was set and stands still while it is None.

\* half seconds in a number of seconds
Ticks(secs) == 2 * secs

\* time_to: the seconds SHUTTER_<contno>_<name>_<what>_TIME configures
TimeTo(what) == IF what = "Close" THEN 2 ELSE 3

\* the denominator all positions share
PosScale == Ticks(1) * TimeTo("Close") * TimeTo("Open")

\* a percentage as a position
Percent(p) == p * PosScale

\* the value is passed on as it is
Unclamped(val, min, max) == val

\* clamp
Clamp(val, min, max) ==
    LET capped == IF val < max THEN val ELSE max
    IN  IF capped > min THEN capped ELSE min

\* (Instant::now() - start).as_secs_f32(), in half seconds
Elapsed == now - start

\* Shutter::calc: the position after the motion that began at `start`; the
\* first second of a motion does not count
Calc ==
    LET travelled(what) ==
            (Clamp(Elapsed - Ticks(1), 0, Ticks(TimeTo(what))) * Percent(100))
                \div Ticks(TimeTo(what))
        moved == CASE direction = "Close" -> initial_pos - travelled("Close")
                   [] direction = "Open" -> initial_pos + travelled("Open")
                   [] OTHER -> position
    IN  Clamp(moved, 0, Percent(100))

\* self.position.round() as i32, position >= 0
Round(pos) == (2 * pos + PosScale) \div (2 * PosScale)

\* Shutter::state
State(dir, pos) ==
    CASE dir = "Stop" /\ Round(pos) = 100 -> "open"
      [] dir = "Stop" /\ Round(pos) = 0 -> "closed"
      [] dir = "Stop" -> "stopped"
      [] dir = "Close" -> "closing"
      [] OTHER -> "opening"

\* Shutter::handle_mqtt
ShutterCommand(pl) ==
    CASE pl = "CLOSE" -> <<<<"SET,OWD,SHT", 1>>>>
      [] pl = "OPEN" -> <<<<"SET,OWD,SHT", 2>>>>
      [] pl = "STOP" -> <<<<"SET,OWD,SHT", 3>>>>
      [] OTHER -> <<>>

ShCall(op, sub, val) ==
    [op |-> op, sub |-> sub, val |-> val, dir |-> direction,
     elapsed |-> IF start >= 0 THEN Elapsed ELSE -1,
     initial_pos |-> initial_pos]

\* position and state as handle_1wire publishes them
Report(dir, pos) ==
    << [topic |-> "position", payload |-> Round(pos)],
       [topic |-> "state", payload |-> State(dir, pos)] >>

\* time passes
ShutterTick ==
    /\ start >= 0
    /\ now < MaxClock
    /\ now' = now + 1
    /\ UNCHANGED <<buttons, direction, start, initial_pos, position, shCall,
                   shOut>>
    /\ UNCHANGED notSh

\* Shutter::handle_1wire, Devstatus of <busid>_1: the buttons
ShutterButtons ==
    \E val \in Words(2) :
        /\ shCall' = ShCall("1wire", 1, val)
        /\ shOut' = [mqtt |-> DigitalIoMsgs(2, "in", val, None)
                                 \o DigitalIoMsgs(2, "button", val, Some(buttons)),
                     ow |-> <<>>]
        /\ buttons' = val
        /\ UNCHANGED <<now, direction, start, initial_pos, position>>
        /\ UNCHANGED notSh

\* Shutter::handle_1wire, Devstatus of <busid>_3: the state of the motor
ShutterStatus ==
    \E val \in Words(2) :
        /\ shCall' = ShCall("1wire", 3, val)
        /\ CASE val = 1 /\ direction # "Close" ->
                  \* close()
                  /\ direction' = "Close"
                  /\ start' = 0
                  /\ now' = 0
                  /\ UNCHANGED <<initial_pos, position>>
                  /\ shOut' = [mqtt |-> Report("Close", position), ow |-> <<>>]
             [] val = 2 /\ direction # "Open" ->
                  \* open()
                  /\ direction' = "Open"
                  /\ start' = 0
                  /\ now' = 0
                  /\ UNCHANGED <<initial_pos, position>>
                  /\ shOut' = [mqtt |-> Report("Open", position), ow |-> <<>>]
             [] val = 3 ->
                  \* stop()
                  /\ position' = Calc
                  /\ direction' = "Stop"
                  /\ start' = -1
                  /\ now' = 0
                  /\ initial_pos' = Calc
                  /\ shOut' = [mqtt |-> Report("Stop", Calc), ow |-> <<>>]
             [] OTHER ->
                  /\ position' = Calc
                  /\ UNCHANGED <<now, direction, start, initial_pos>>
                  /\ shOut' =
                       [mqtt |-> Report(direction, Calc),
                        ow |-> IF /\ start >= 0
                                  /\ direction \in {"Close", "Open"}
                                  /\ Elapsed > Ticks(TimeTo(direction))
                               THEN ShutterCommand("STOP") ELSE <<>>]
        /\ UNCHANGED buttons
        /\ UNCHANGED notSh

\* Shutter::handle_mqtt
ShutterHandleMqtt ==
    \E pl \in {"CLOSE", "OPEN", "STOP", "x"} :
        /\ shCall' = ShCall("mqtt", 0, pl)
        /\ shOut' = [mqtt |-> <<>>, ow |-> ShutterCommand(pl)]
        /\ UNCHANGED <<now, buttons, direction, start, initial_pos, position>>
        /\ UNCHANGED notSh

\* Shutter::new
InitSh ==
    /\ now = 0
    /\ buttons = 0
    /\ direction = "Stop"
    /\ start = -1
    /\ initial_pos = Percent(100)
    /\ position = Percent(100)
    /\ shCall = [op |-> "none", sub |-> 0, val |-> 0, dir |-> "Stop",
                 elapsed |-> -1, initial_pos |-> Percent(100)]
    /\ shOut = NoTwoWay

NextSh ==
    \/ ShutterTick
    \/ ShutterButtons
    \/ ShutterStatus
    \/ ShutterHandleMqtt

\* ---------------------------------------------------------------------------
\* The HVAC controller (climate.rs) and its main loop (bin/climate.rs).
\* Temperatures are exact decimals, held in 1/100 degrees.

INITIAL_TEMP == 2100
EPSILON_TEMP == 2
AUX_HEAT_TRIGGER == 80

TOK_HEAT_STATE == 1
TOK_TEMP == 2
TOK_MODE_SET == 3
TOK_TEMP_SET == 4
TOK_DEW == 5
TOK_AUX_STATE == 6

\* a payload: a decimal number, or a word that is none
Degrees(c) == [num |-> TRUE, centi |-> c, word |-> ""]
Word(w) == [num |-> FALSE, centi |-> 0, word |-> w]

\* the payloads that arrive on the topics of a token
Setpoints == {2100, 2102, 2150}
Readings == {2019, 2020, 2050, 2090, 2095, 2099, 2100, 2150}
HvPayloads(token) ==
    CASE token = TOK_TEMP_SET -> {Degrees(c) : c \in Setpoints} \cup {Word("x")}
      [] token = TOK_TEMP ->
           {Degrees(c) : c \in Readings} \cup {Word("x"), Word("")}
      [] token = TOK_MODE_SET -> {Word("off"), Word("heat"), Word("x"), Word("")}
      [] token \in {TOK_HEAT_STATE, TOK_AUX_STATE} ->
           {Word("1"), Word("0"), Word("on"), Word("x")}
      [] OTHER -> {Word("x")}

\* the configurations: the optional topics of the auxiliary heating, and the
\* offset added to the sensor's reading
Confs ==
    [aux_state : BOOLEAN, aux_cmnd : BOOLEAN, dew : {TRUE}, offset : {0, 5}]

\* Climate::subscribe: the tokens the routes can deliver
Subscribe(c) ==
    {TOK_HEAT_STATE, TOK_TEMP, TOK_MODE_SET, TOK_TEMP_SET}
        \cup (IF c.dew THEN {TOK_DEW} ELSE {})
        \cup (IF c.aux_state THEN {TOK_AUX_STATE} ELSE {})

\* MqttMsg::new and MqttMsg::retain
Pub(topic, payload) == [topic |-> topic, payload |-> payload, retain |-> FALSE]
Retained(topic, payload) ==
    [topic |-> topic, payload |-> payload, retain |-> TRUE]

\* the fields of the Climate
Self ==
    [conf |-> config, mode |-> mode, temp_set |-> temp_set, temp_cur |-> temp_cur,
     heating_on |-> heating_on, aux_on |-> aux_on]

\* Climate::action
Action(c) ==
    IF c.mode = "off" THEN "off"
    ELSE IF c.heating_on THEN "heating"
    ELSE "idle"

\* set_aux that sends the command whatever the state of the aux heating
SetAuxAlways(c, on) ==
    IF c.conf.aux_cmnd
    THEN <<Pub("aux_cmnd", IF on THEN "1" ELSE "0")>>
    ELSE <<>>

\* Climate::set_aux
SetAux(c, on) ==
    IF c.conf.aux_cmnd /\ c.aux_on # on
    THEN <<Pub("aux_cmnd", IF on THEN "1" ELSE "0")>>
    ELSE <<>>

\* Climate::eval
Eval(c) ==
    LET res == << Pub("action", Action(c)), Pub("mode", c.mode),
                  Pub("current", c.temp_cur), Pub("target", c.temp_set) >>
    IN  IF c.mode = "off"
        THEN res
               \o (IF c.heating_on THEN <<Pub("heat_cmnd", "0")>> ELSE <<>>)
               \o SetAux(c, FALSE)
        ELSE res
               \o (IF c.temp_cur >= c.temp_set - 10 /\ c.aux_on
                   THEN SetAux(c, FALSE) ELSE <<>>)
               \o (CASE c.temp_cur < c.temp_set /\ ~c.heating_on ->
                          <<Pub("heat_cmnd", "1")>>
                              \o (IF c.temp_cur < c.temp_set - AUX_HEAT_TRIGGER
                                  THEN SetAux(c, TRUE) ELSE <<>>)
                     [] ~(c.temp_cur < c.temp_set) /\ c.heating_on ->
                          <<Pub("heat_cmnd", "0")>>
                     [] OTHER -> <<>>)

\* (a - b).abs()
AbsDiff(a, b) == IF a >= b THEN a - b ELSE b - a

\* payload.parse::<Mode>()
ParseMode(pl) == pl.word \in {"off", "heat"}

\* the result of Climate::process: the error, the fields afterwards, and the
\* messages returned
Done(c, out) == [err |-> "none", self |-> c, out |-> out]
Failed(c, err) == [err |-> err, self |-> c, out |-> <<>>]

\* a payload that is no number counts as 0 degrees
ProcessLenient(c, token, pl) ==
    LET n == [c EXCEPT !.temp_set = IF token = TOK_TEMP_SET THEN pl.centi ELSE @,
                       !.temp_cur = IF token = TOK_TEMP THEN pl.centi ELSE @]
    IN  Done(n, Eval(n))

\* Climate::process
Process(c, token, pl) ==
    CASE token = TOK_TEMP_SET ->
           IF ~pl.num THEN Failed(c, "FloatFormat")
           ELSE IF AbsDiff(c.temp_set, pl.centi) > EPSILON_TEMP
                THEN LET n == [c EXCEPT !.temp_set = pl.centi]
                     IN  Done(n, Eval(n) \o <<Retained("target/set", pl)>>)
                ELSE Done(c, <<>>)
      [] token = TOK_TEMP ->
           IF ~pl.num THEN Failed(c, "FloatFormat")
           ELSE IF AbsDiff(c.temp_cur, pl.centi + c.conf.offset) > EPSILON_TEMP
                THEN LET n == [c EXCEPT !.temp_cur = pl.centi + c.conf.offset]
                     IN  Done(n, Eval(n))
                ELSE Done(c, <<>>)
      [] token = TOK_MODE_SET ->
           IF ~ParseMode(pl) THEN Failed(c, "Keyword")
           ELSE IF c.mode # pl.word
                THEN LET n == [c EXCEPT !.mode = pl.word]
                     IN  Done(n, Eval(n) \o <<Retained("mode/set", pl)>>)
                ELSE Done(c, <<>>)
      [] token = TOK_HEAT_STATE ->
           IF c.heating_on # Str2Bool(pl.word)
           THEN LET n == [c EXCEPT !.heating_on = Str2Bool(pl.word)]
                IN  Done(n, Eval(n))
           ELSE Done(c, <<>>)
      [] token = TOK_AUX_STATE ->
           Done([c EXCEPT !.aux_on = Str2Bool(pl.word)], <<>>)
      [] OTHER -> Done(c, <<>>)

NoHvCall == [token |-> 0, payload |-> Word("")]

\* run() up to the main loop: Climate::new with the configuration read, and
\* the messages of the first eval()
ClimateStarts ==
    /\ hvPc = "start"
    /\ \E c \in Confs : config' = c
    /\ hvOut' = Eval([Self EXCEPT !.conf = config'])
    /\ hvPc' = "loop"
    /\ UNCHANGED <<mode, temp_set, temp_cur, heating_on, aux_on, hvCall, hvErr>>
    /\ UNCHANGED notHv

\* one message of the main loop: Controllers::process, then every message
\* returned is sent
ClimateProcess ==
    /\ hvPc = "loop"
    /\ \E token \in Subscribe(config) :
         \E pl \in HvPayloads(token) :
           LET r == Process(Self, token, pl)
           IN  /\ hvCall' = [token |-> token, payload |-> pl]
               /\ hvErr' = r.err
               /\ hvOut' = r.out
               /\ mode' = r.self.mode
               /\ temp_set' = r.self.temp_set
               /\ temp_cur' = r.self.temp_cur
               /\ heating_on' = r.self.heating_on
               /\ aux_on' = r.self.aux_on
    /\ UNCHANGED <<config, hvPc>>
    /\ UNCHANGED notHv

\* mqtt.send(r)? fails while the messages of the last call are sent
ClimateSendFails ==
    /\ hvPc = "loop"
    /\ hvOut # <<>>
    /\ hvPc' = "ended"
    /\ UNCHANGED <<config, mode, temp_set, temp_cur, heating_on, aux_on, hvCall,
                   hvErr, hvOut>>
    /\ UNCHANGED notHv

\* Climate::new
InitHv ==
    /\ config = [aux_state |-> FALSE, aux_cmnd |-> FALSE, dew |-> TRUE,
               offset |-> 0]
    /\ mode = "heat"
    /\ temp_set = INITIAL_TEMP
    /\ temp_cur = INITIAL_TEMP
    /\ heating_on = FALSE
    /\ aux_on = FALSE
    /\ hvPc = "start"
    /\ hvCall = NoHvCall
    /\ hvErr = "none"
    /\ hvOut = <<>>

NextHv ==
    \/ ClimateStarts
    \/ ClimateProcess
    \/ ClimateSendFails

\* ---------------------------------------------------------------------------
\* The reader thread of the MQTT connection (mqtt.rs, recv_loop)

INITIAL_RETRY == 200
RETRY_LIMIT == 20000

\* the packets of Event::Incoming, and Event::Outgoing
EvtKinds == {"Publish", "BadUtf8", "Disconnect", "ConnAck", "Other", "Outgoing"}

\* if retry < 20_000 { retry = retry * 6 / 5 }
NextRetry(r) == IF r < RETRY_LIMIT THEN (r * 6) \div 5 ELSE r

\* Ok(Event::Incoming(pck)) and Ok(Event::Outgoing(_)): process_packet sends
\* a Publish and an accepted ConnAck into tx; a failed send ends the thread
MqttEvent ==
    /\ mqPc = "running"
    /\ \E kind \in EvtKinds :
         /\ lastEvt' = kind
         /\ IF kind \in {"Publish", "ConnAck"}
            THEN IF rxOpen
                 THEN /\ mqDown < MaxMq
                      /\ mqDown' = mqDown + 1
                      /\ UNCHANGED mqPc
                 ELSE /\ mqPc' = "ended"
                      /\ UNCHANGED mqDown
            ELSE UNCHANGED <<mqDown, mqPc>>
    /\ UNCHANGED <<retry, slept, failures, rxOpen>>
    /\ UNCHANGED notMq

\* Err(e): sleep for `retry` ms, then grow the delay
MqttError ==
    /\ mqPc = "running"
    /\ failures < MaxFail
    /\ failures' = failures + 1
    /\ lastEvt' = "Err"
    /\ slept' = retry
    /\ retry' = NextRetry(retry)
    /\ UNCHANGED <<mqDown, rxOpen, mqPc>>
    /\ UNCHANGED notMq

\* the owner of the receiver drops it
ReceiverDropped ==
    /\ rxOpen
    /\ rxOpen' = FALSE
    /\ UNCHANGED <<retry, slept, failures, lastEvt, mqDown, mqPc>>
    /\ UNCHANGED notMq

InitMq ==
    /\ retry = INITIAL_RETRY
    /\ slept = 0
    /\ failures = 0
    /\ lastEvt = "none"
    /\ mqDown = 0
    /\ rxOpen = TRUE
    /\ mqPc = "running"

NextMq ==
    \/ MqttEvent
    \/ MqttError
    \/ ReceiverDropped

\* ---------------------------------------------------------------------------
\* The selection of the device variant for a list entry (device/mod.rs)

\* the article numbers of a device list: the known articles, a chip without
\* an article and an empty slot
ArtNos ==
    { "11150", "11151", "11216", "11220", "11221", "11228", "11229", "11322",
      "11340", "DS2408", "none" }

\* the next entry of a device list is turned into a Model
SelectDevice ==
    /\ Len(selected) < MaxSel
    /\ \E artno \in ArtNos :
         selected' = Append(selected,
                            ModelSelect(DeviceInfo(Owd(Len(selected) + 1),
                                                   "A", "online", artno)))
    /\ UNCHANGED notSel

InitSel == selected = <<>>

NextSel == SelectDevice

\* ---------------------------------------------------------------------------
\* Universe::handle_1wire: the dispatch of device events (bus.rs)

\* `devices: [Model; 31]`
NUM_DEVICES == 31

\* Universe.bus.len(): set_controller resizes the Vec to contno + 1
BusLen == IF hasBus THEN BusContno + 1 ELSE 0

\* the controller numbers events carry: that of the Bus, the one below (a
\* default Bus after the resize) and the one above
EvContnos == {0, BusContno, BusContno + 1}

\* the bus addresses of device-status events
EvAddrs ==
    { <<Owd(n), k>> : n \in 1..2, k \in {1, 3, 5} }
        \cup { <<<<"SYS", 1>>, 1>>, <<<<"SYS", 3>>, 0>>, <<<<"SYS", 9>>, 1>> }

\* the slot numbers of OWD-status events, a u8
EvOwds == {0, 1, NUM_DEVICES - 1, NUM_DEVICES, 255}

\* the device lists of the enumerations: one entry, "OWD1", which is an
\* air-quality sensor, a temperature/humidity sensor or a switch
DispLists == { <<DeviceInfo(Owd(1), k[1], k[2], k[3])>> : k \in EnumKinds }

\* the device in slot s of the Bus with number contno; the slots beyond the
\* lists and the Bus below hold Model::default()
DeviceAt(contno, s) ==
    IF contno = BusContno /\ s \in Slots THEN devices[s] ELSE DefaultModel

\* the Devstatus arm of the devices' handle_1wire: the sub-addresses (the
\* whole address for the controller) that do not end in
\* panic!("BUG: Unknown busaddr {}")
Recognises(dev, addr) ==
    CASE dev.variant = "TempHum" -> addr[2] \in {1, 3, 4}
      [] dev.variant = "AirQuality" -> addr[2] \in {1, 3, 4, 5}
      [] dev.variant = "Switch8" -> addr[2] \in {1, 3}
      [] dev.variant = "Hub" -> addr[2] \in {1, 2, 3, 4}
      [] dev.variant = "Controller2" ->
           addr \in { <<<<"SYS", 1>>, 1>>, <<<<"SYS", 2>>, 1>>, <<<<"SYS", 3>>, 0>> }
      [] OTHER -> TRUE

NotDelivered == [kind |-> "none", contno |-> 0, slot |-> -1]

Delivered(kind, contno, slot) == [kind |-> kind, contno |-> contno, slot |-> slot]

\* Universe::ca: `self.bus[contno as usize].index(addr)`
Ca(contno, addr) ==
    IF contno >= BusLen THEN [fault |-> "bus index", slot |-> -1]
    ELSE IF contno = BusContno /\ addr \in DOMAIN busaddrs
         THEN [fault |-> "none", slot |-> busaddrs[addr]]
         ELSE [fault |-> "none", slot |-> -1]

\* Universe::cd: `&mut self.bus[contno as usize].devices[devno as usize]`
Cd(contno, devno) ==
    IF contno >= BusLen THEN [fault |-> "bus index", slot |-> -1]
    ELSE IF devno >= NUM_DEVICES THEN [fault |-> "slot index", slot |-> -1]
    ELSE [fault |-> "none", slot |-> devno]

\* Response::Devstatus: the device the index names handles the event
DispatchDevstatus(contno, addr) ==
    /\ fault = "none"
    /\ ~asserted
    /\ LET at == Ca(contno, addr) IN
         /\ fault' = (IF at.fault # "none" THEN at.fault
                      ELSE IF at.slot >= 0
                              /\ ~Recognises(DeviceAt(contno, at.slot), addr)
                           THEN "unknown busaddr"
                           ELSE "none")
         /\ delivered' = Delivered("Devstatus", contno, at.slot)
    /\ UNCHANGED notDp

\* Response::OWDStatus: the device in slot `owd` is handed the event
DispatchOWDStatus(contno, owd) ==
    /\ fault = "none"
    /\ ~asserted
    /\ fault' = Cd(contno, owd).fault
    /\ delivered' = Delivered("OWDStatus", contno, Cd(contno, owd).slot)
    /\ UNCHANGED notDp

\* Response::DIO: the device in slot 0 is handed the event
DispatchDIO(contno) ==
    /\ fault = "none"
    /\ ~asserted
    /\ fault' = Cd(contno, 0).fault
    /\ delivered' = Delivered("DIO", contno, Cd(contno, 0).slot)
    /\ UNCHANGED notDp

InitDp ==
    /\ fault = "none"
    /\ delivered = NotDelivered

\* Response::CSI: set_controller
DispatchCSI(serno) ==
    /\ fault = "none"
    /\ SetController(serno)

\* Response::List3: populate, which fails its assertion before any CSI
DispatchList3(lst) ==
    /\ fault = "none"
    /\ \/ PopulateAsserts(lst)
       \/ PopulateCounted(lst)

NextDispatch ==
    \/ \E serno \in {"C1"} : DispatchCSI(serno)
    \/ \E lst \in DispLists : DispatchList3(lst)
    \/ \E c \in EvContnos, a \in EvAddrs : DispatchDevstatus(c, a)
    \/ \E c \in EvContnos, o \in EvOwds : DispatchOWDStatus(c, o)
    \/ \E c \in EvContnos : DispatchDIO(c)

\* ---------------------------------------------------------------------------
\* The Bridge handles the items a starting session puts into its channel
\* (bin/esera-bridge.rs handle; bus.rs Universe::handle_1wire)

\* handle(): the next item of the channel, oldest first. Err(e) is logged;
\* a CSI sets the controller; a device list is populated, which fails its
\* assertion when no CSI has set the controller; other responses change
\* nothing of the Universe
HandleDown ==
    /\ ~asserted
    /\ taken < Len(hsDown)
    /\ taken' = taken + 1
    /\ CASE hsDown[taken + 1] = "CSI" -> UniverseSetController("C1")
         [] hsDown[taken + 1] = "List3" ->
              \/ UniversePopulateAsserts
              \/ \E lst \in DispLists :
                   /\ UniversePopulate(lst)
                   /\ UNCHANGED enumerated
         [] OTHER -> UNCHANGED busVars
    /\ UNCHANGED notBusSt

InitSt == taken = 0

NextStart ==
    \/ NextHs
    \/ HandleDown

\* ---------------------------------------------------------------------------
\* The Controller2 in slot 0: CSI, device list, DIO (controller2.rs, bus.rs)

\* parser::DIO, `#[strum(serialize = "0" .. "3")]`
DioModes == <<"Independent+Level", "Independent+Edge", "Linked+Level",
              "Linked+Edge">>

\* DIO::default()
DefaultDio == "Independent+Level"

\* the firmware versions a CSI names
Firmwares == {"V1.20", "V1.21", "V1.22"}

\* announce(): `let dur = match self.dio`
Dur(d) ==
    IF d \in {"Linked+Edge", "Independent+Edge"} THEN "short" ELSE "long"

\* Bus::set_controller: a new Controller2 is put into slot 0 and is handed the
\* CSI: `self.sw_version = csi.fw; TwoWay::mqtt(self.announce())`
C2HandleCSI(fw) ==
    /\ slot0' = "Controller2"
    /\ dio' = DefaultDio
    /\ sw_version' = fw
    /\ announced' = Dur(dio')
    /\ UNCHANGED <<dioPending, dioOut>>
    /\ UNCHANGED notC2

\* Universe::handle_1wire, Response::List3: after populate() the devices'
\* init() commands go out (SET,SYS,OUTA,500 and GET,SYS,DIO for the
\* controller) and every device announces
C2HandleList3 ==
    /\ slot0 = "Controller2"
    /\ dioPending < MaxAsk
    /\ dioPending' = dioPending + 1
    /\ announced' = Dur(dio)
    /\ UNCHANGED <<slot0, dio, sw_version, dioOut>>
    /\ UNCHANGED notC2

\* Controller2::handle_1wire, Msg::DIO, for the answer to a GET,SYS,DIO:
\* `self.dio = dio; TwoWay::from_mqtt(self.info.mqtt_msg("dio", dio))`
C2HandleDIO(n) ==
    /\ slot0 = "Controller2"
    /\ dioPending > 0
    /\ dioPending' = dioPending - 1
    /\ dio' = DioModes[n + 1]
    /\ dioOut' = DioModes[n + 1]
    /\ UNCHANGED <<slot0, sw_version, announced>>
    /\ UNCHANGED notC2

\* Bus::default(): slot 0 holds Model::default()
InitC2 ==
    /\ slot0 = "Unknown"
    /\ dio = DefaultDio
    /\ sw_version = ""
    /\ announced = "none"
    /\ dioPending = 0
    /\ dioOut = "none"

NextC2 ==
    \/ \E fw \in Firmwares : C2HandleCSI(fw)
    \/ C2HandleList3
    \/ \E n \in 0..3 : C2HandleDIO(n)

\* ---------------------------------------------------------------------------
\* The device list: lst3, parse, munch, receive and list() (parser.rs,
\* controller.rs)
\*
\* The buffer is held in lines: "H" is the line "1_LST3|<time>", "I" a line
\* "LST|1_OWD<n>|<serial>|S_<status>|<article>|<name>", "E" another line of
\* the controller ("1_EVT|<time>"), "B" a line that begins like an LST line
\* and has a status that is none; each with its line ending. "h", "i" and "e"
\* are the first bytes of such a line, without its end; they stand last.

\* many_m_n(1, 30, ..)
LST_MIN == 1
LST_MAX == 30

Incomplete == [kind |-> "incomplete", items |-> 0, used |-> 0]
ParseError == [kind |-> "error", items |-> 0, used |-> 0]
Parsed(kind, items, used) == [kind |-> kind, items |-> items, used |-> used]

\* many_m_n over a complete buffer: the end of the input ends the list
RECURSIVE ManyMNComplete(_, _)
ManyMNComplete(rest, count) ==
    IF count = LST_MAX THEN Parsed("List3", count, count)
    ELSE IF rest # <<>> /\ rest[1] = "i" THEN Incomplete
    ELSE IF rest # <<>> /\ rest[1] = "I" THEN ManyMNComplete(Tail(rest), count + 1)
    ELSE IF count < LST_MIN THEN ParseError
    ELSE Parsed("List3", count, count)

\* many_m_n(1, 30, item) with the streaming tag("LST|<contno>_"): up to 30
\* items; Incomplete of the item parser is handed on; its Error ends the
\* list, which needs one item at least
RECURSIVE ManyMN(_, _)
ManyMN(rest, count) ==
    IF count = LST_MAX THEN Parsed("List3", count, count)
    ELSE IF rest = <<>> \/ rest[1] = "i" THEN Incomplete
    ELSE IF rest[1] = "I" THEN ManyMN(Tail(rest), count + 1)
    ELSE IF count < LST_MIN THEN ParseError
    ELSE Parsed("List3", count, count)

\* lst3: the header line, then the items
Lst3(p) ==
    IF p = <<>> \/ p[1] = "h" THEN Incomplete
    ELSE IF p[1] # "H" THEN ParseError
    ELSE LET m == ManyMN(Tail(p), 0)
         IN  IF m.kind = "List3" THEN Parsed("List3", m.items, m.used + 1) ELSE m

\* parse: alt((.., evt, .., lst3, ..))
ParseLines(p) ==
    IF p = <<>> \/ p[1] \in {"h", "e"} THEN Incomplete
    ELSE IF p[1] = "E" THEN Parsed("Event", 0, 1)
    ELSE Lst3(p)

\* munch: a response leaves the buffer; an error deletes one line
MunchLines(p) ==
    LET r == ParseLines(p)
    IN  CASE r.kind = "incomplete" -> [res |-> Incomplete, partial |-> p]
          [] r.kind = "error" -> [res |-> ParseError, partial |-> Tail(p)]
          [] OTHER -> [res |-> r, partial |-> SubSeq(p, r.used + 1, Len(p))]

\* receive: `while let Some(resp) = munch(&mut partial) { queue.push_back }`
RECURSIVE DrainLines(_, _)
DrainLines(p, q) ==
    LET m == MunchLines(p)
    IN  IF m.res.kind = "incomplete"
        THEN [partial |-> p, queue |-> q]
        ELSE DrainLines(m.partial, Append(q, m.res))

\* the line the controller may begin or write next: the header, up to 30
\* LST lines, then its other lines
NextLines ==
    CASE lsStage = "header" -> {"h", "H"}
      [] lsStage = "items" ->
           (IF lsCount < LST_MAX /\ lsCount < MaxLst THEN {"i", "I"} ELSE {})
               \cup (IF lsCount >= 1 THEN {"e", "E", "B"} ELSE {})
      [] OTHER -> {}

Begun(p) == p # <<>> /\ p[Len(p)] \in {"h", "i", "e"}

Whole(c) == CASE c = "h" -> "H" [] c = "i" -> "I" [] OTHER -> "E"

\* the controller writes a line, or the first bytes of one, and receive()
\* (called by the pick! of list()) reads and munches them
ListReceive(c) ==
    /\ lsPicked = -1
    /\ ~Begun(lsPartial)
    /\ c \in NextLines
    /\ LET d == DrainLines(Append(lsPartial, c), lsQueue)
       IN  /\ lsPartial' = d.partial
           /\ lsQueue' = d.queue
    /\ lsCount' = IF c = "I" THEN lsCount + 1 ELSE lsCount
    /\ lsStage' = (IF c \in {"H", "I", "i"} THEN "items"
                   ELSE IF c = "h" THEN "header" ELSE "after")
    /\ UNCHANGED lsPicked
    /\ UNCHANGED notLs

\* the rest of the line begun arrives and receive() reads and munches it
ListReceiveRest ==
    /\ lsPicked = -1
    /\ Begun(lsPartial)
    /\ LET c == Whole(lsPartial[Len(lsPartial)])
           d == DrainLines(Append(SubSeq(lsPartial, 1, Len(lsPartial) - 1), c),
                           lsQueue)
       IN  /\ lsPartial' = d.partial
           /\ lsQueue' = d.queue
           /\ lsCount' = IF c = "I" THEN lsCount + 1 ELSE lsCount
           /\ lsStage' = IF c = "E" THEN "after" ELSE "items"
    /\ UNCHANGED lsPicked
    /\ UNCHANGED notLs

\* pick!(List3): the scan finds the list in the queue and removes it
ListPick ==
    /\ lsPicked = -1
    /\ \E i \in DOMAIN lsQueue :
         /\ lsQueue[i].kind = "List3"
         /\ \A j \in 1..(i - 1) : lsQueue[j].kind # "List3"
         /\ lsPicked' = lsQueue[i].items
         /\ lsQueue' = RemoveAt(lsQueue, i)
    /\ UNCHANGED <<lsStage, lsCount, lsPartial>>
    /\ UNCHANGED notLs

\* list() has sent GET,OWB,LISTALL1 and its pick! has found nothing yet
InitLs ==
    /\ lsStage = "header"
    /\ lsCount = 0
    /\ lsPartial = <<>>
    /\ lsQueue = <<>>
    /\ lsPicked = -1

NextLs ==
    \/ \E c \in {"h", "H", "i", "I", "e", "E", "B"} : ListReceive(c)
    \/ ListReceiveRest
    \/ ListPick

\* ---------------------------------------------------------------------------
\* Specifications

Init ==
    InitSess /\ InitLoop /\ InitBridge /\ InitBus /\ InitRt /\ InitRx /\ InitHs
    /\ InitDev /\ InitSh /\ InitHv /\ InitMq
    /\ InitSel /\ InitCn /\ InitDp /\ InitSt
    /\ InitC2 /\ InitLs

SpecSess == Init /\ [][NextSess]_vars

SpecLoop == Init /\ [][NextLoop]_vars

SpecBridge == Init /\ [][NextBridge]_vars

SpecBus == Init /\ [][NextBus]_vars

SpecEnum == Init /\ [][NextEnum]_vars

SpecRoutes == Init /\ [][NextRt]_vars

SpecRecv == Init /\ [][NextRx]_vars

SpecOpen == Init /\ [][NextHs]_vars

SpecDev == Init /\ [][NextDev]_vars

SpecShutter == Init /\ [][NextSh]_vars

SpecClimate == Init /\ [][NextHv]_vars

SpecMqtt == Init /\ [][NextMq]_vars

SpecSelect == Init /\ [][NextSel]_vars

SpecShared == Init /\ [][NextShared]_vars

SpecDispatch == Init /\ [][NextDispatch]_vars

SpecStart == Init /\ [][NextStart]_vars

SpecDio == Init /\ [][NextC2]_vars

SpecList == Init /\ [][NextLs]_vars

\* every thread of the program that can take a step eventually takes one;
\* nothing is assumed of the controllers, the network or the MQTT clients
FairLoop ==
    /\ SpecLoop
    /\ \A c \in Ctrls : WF_vars(LoopProgramStep(c))

\* the session thread of controller c is in its reconnect loop
\* (controller.rs, `while let Err(e) = c.connect(addr.clone())`)
Reconnecting(c) == sessThread[c] = "reconnect"

\* C4: once the transport of a session has closed, its reader and writer
\* tasks both end, its inbound channel is closed and the Bridge sees that.
C4_DisconnectEndsBothTasks ==
    \A c \in Ctrls :
        (transport[c] = "closed") ~>
            (/\ readerPc[c] = "exited"
             /\ writerPc[c] = "exited"
             /\ ~downOpen[c]
             /\ sawClosed[c])

\* C5: once the Bridge has seen the stream of a controller closed, a
\* reconnect of that controller is eventually attempted.
C5_ClosedStreamIsReconnected ==
    \A c \in Ctrls : sawClosed[c] ~> Reconnecting(c)


\* ---------------------------------------------------------------------------
\* Claims about ControllerConnection (checked under SpecSess)

SeqIds(s) == [i \in 1..Len(s) |-> s[i].id]

\* the ids that arrived and were not picked, in arrival order
Unpicked == SelectSeq([i \in 1..arrived |-> i], LAMBDA i : i \notin picked)

\* C1: the step of pick! that removes the match leaves exactly the other
\* queue entries, in the order they had, whatever the position of the match;
\* the removed entry is the one returned and it is of the wanted variant.
C1_PickCutsOutOnlyTheMatch ==
    [][(pc = "pick_remove" /\ pc' = "idle") =>
         LET r == result' IN
           /\ r.type = "picked"
           /\ r.kind = want
           /\ \E i \in 1..Len(queue) : queue[i].id = r.id
           /\ Len(queue') = Len(queue) - 1
           /\ queue' = SelectSeq(queue, LAMBDA m : m.id # r.id)]_vars

\* C1 witness: a pick returned the middle entry of a three-entry queue and
\* the entries before and after it are still queued
C1_Witness ==
    /\ pc = "idle"
    /\ result.type = "picked"
    /\ Len(scanned) = 3
    /\ scanned[2].id = result.id
    /\ SeqIds(queue) = <<scanned[1].id, scanned[3].id>>

\* the first entry of q that is of variant kind or a Response::Err is at i
FirstDecisive(q, kind, i) ==
    /\ i \in 1..Len(q)
    /\ q[i].kind \in {kind, "Err"}
    /\ \A j \in 1..(i - 1) : q[j].kind \notin {kind, "Err"}

\* C2: a pick! whose scan meets a Response::Err before any entry of the
\* wanted variant fails with Error::Controller carrying that entry's code;
\* a pick! whose scan meets an entry of the wanted variant first returns that
\* entry, the first of its variant in the queue; and pick! gives these two
\* results in no other situation.
C2_PickErrorOrFirstMatch ==
    /\ \A i \in 1..Len(scanned) :
         (pc \in {"idle", "pick_remove"} /\ want # "none"
            /\ FirstDecisive(scanned, want, i)) =>
              IF scanned[i].kind = "Err"
              THEN /\ pc = "idle"
                   /\ result.type = "controller"
                   /\ result.code = scanned[i].code
              ELSE \/ pc = "pick_remove" /\ found = i
                   \/ /\ pc = "idle"
                      /\ result.type = "picked"
                      /\ result.id = scanned[i].id
    /\ result.type = "controller" =>
         \E i \in 1..Len(scanned) :
            /\ FirstDecisive(scanned, want, i)
            /\ scanned[i].kind = "Err"
            /\ scanned[i].code = result.code
    /\ result.type = "picked" =>
         \E i \in 1..Len(scanned) :
            /\ FirstDecisive(scanned, want, i)
            /\ scanned[i].kind = want
            /\ scanned[i].id = result.id

\* C2 witness: a pick failed with the code of an error that was queued in
\* front of an entry of the wanted variant
C2_Witness ==
    /\ pc = "idle"
    /\ result.type = "controller"
    /\ result.code \in ErrCodes
    /\ \E i, j \in 1..Len(scanned) :
         i < j /\ scanned[i].kind = "Err" /\ scanned[j].kind = want

\* C3: what get() has returned so far, followed by what is still queued and
\* what is still on the wire, is exactly the messages not taken by pick!, each
\* once and in arrival order; when get() reports the end of the stream all of
\* them have been returned.
C3_StreamDeliversUnpickedInOrder ==
    /\ SeqIds(streamed \o queue \o wire) = Unpicked
    /\ result.type = "end" => SeqIds(streamed) = Unpicked

\* C3 witness: get() has returned two messages, one of which arrived before a
\* message that a pick! took out of the queue behind it
C3_Witness ==
    /\ Len(streamed) >= 2
    /\ \E k \in 1..Len(streamed) : \E i \in picked : streamed[k].id < i

\* ---------------------------------------------------------------------------
\* Claims about the Bridge (checked under SpecBridge)

\* handle() waits in select() and the item it took last is done with
BridgeIdle == bridgePc = "select" /\ recipients = <<>>

\* the Subscribes sent in answer to the item taken last
ReplayedSubs ==
    SelectSeq(mqttSent[0], LAMBDA m : m.src = last.src /\ m.type = "Sub")

\* C6: when the Bridge has taken a Reconnected notice and is back in
\* select(), it has sent exactly one Subscribe for every topic of the routes.
C6_ReconnectReplaysSubscriptions ==
    (BridgeIdle /\ last.type = "Reconnected") =>
        /\ Len(ReplayedSubs) = Cardinality(RoutesSubscriptions(routes))
        /\ { ReplayedSubs[i].topic : i \in 1..Len(ReplayedSubs) }
             = RoutesSubscriptions(routes)

\* the messages of the MQTT session's log that answer item no of controller c
SentFor(c, no) == SelectSeq(mqttSent[c], LAMBDA m : m.src = <<c, no>>)

\* C7: the items of a controller are handled in the order they were queued,
\* and when the Bridge takes an item every MQTT message of the items of that
\* controller handled before has been handed to the MQTT session, in the
\* order of the items.
C7_EventsInOrderMessagesFirst ==
    \A c \in Buses :
        /\ handled[c] = [k \in 1..Len(handled[c]) |-> k]
        /\ \A k \in 1..(Len(handled[c]) - 1) :
              Len(SentFor(c, k)) = due[<<c, k>>]
        /\ \A i, j \in 1..Len(mqttSent[c]) :
              i < j => mqttSent[c][i].src[2] <= mqttSent[c][j].src[2]

\* a controller's third item is being handled: its CSI and its device list
\* each produced messages, all of them sent; the list's followed the CSI's
C7_Witness ==
    \E c \in Buses :
        /\ Len(handled[c]) = 3
        /\ due[<<c, 1>>] >= 1
        /\ due[<<c, 2>>] >= 2
        /\ due[<<c, 3>>] = 1
        /\ bridgePc = "send"
        /\ Len(mqttSent[c]) = due[<<c, 1>>] + due[<<c, 2>>]

\* the lines sent to controller i in answer to the item taken last
LinesFor(i) == SelectSeq(up[i], LAMBDA l : l.src = last.src)

\* C8: when the Bridge is done with a publish, handle_mqtt has been called
\* once for every recipient registered for the topic, and the lines that
\* resulted are in the channel of the controller of the recipient only.
C8_EveryRecipientOnceOwnerOnly ==
    (BridgeIdle /\ last.type = "Pub") =>
        /\ invoked = RoutesLookup(routes, last.topic)
        /\ \A i \in Buses : \A k \in 1..Len(LinesFor(i)) :
              LinesFor(i)[k].loc[1] = busContno[i]

\* ---------------------------------------------------------------------------
\* Claims about the Bus (checked under SpecBus and SpecEnum)

\* C9: when populate() is called with the device list it was called with
\* just before, the slots (variant and DeviceInfo) and the bus-address index
\* stay as the first call left them.
C9_SameListTwiceSameBus ==
    [][(repeat = 1 /\ repeat' = 2 /\ lastList' = lastList) =>
         /\ devices' = devices
         /\ busaddrs' = busaddrs]_vars

\* a list of two devices has been applied twice; the first call had replaced
\* the devices of both slots
C9_Witness ==
    /\ repeat = 2
    /\ Len(lastList) = MaxItems
    /\ \A i \in 1..MaxItems : devices[i].info = lastList[i]
    /\ devices[1].variant = "AirQuality"
    /\ devices[2].variant = "TempHum"
    /\ <<Owd(1), 5>> \in DOMAIN busaddrs

\* the index made anew from the devices now in the slots; of two slots with
\* the same address the higher one owns it
RECURSIVE RebuiltIndex(_, _)
RebuiltIndex(devs, slot) ==
    IF slot \notin DOMAIN devs THEN [a \in {} |-> 0]
    ELSE LET rest == RebuiltIndex(devs, slot + 1)
         IN  [a \in DOMAIN rest \cup Register1Wire(devs[slot]) |->
                IF a \in DOMAIN rest THEN rest[a] ELSE slot]

\* C10: after populate() the bus-address index holds the addresses of the
\* devices now in the slots, each with the slot of its device, and no other.
C10_IndexIsExactlyCurrentDevices ==
    repeat >= 1 => busaddrs = RebuiltIndex(devices, 0)

\* C12: populate() puts a new device (the variant of the entry's article, with
\* the entry's data) into the slot of a list entry if and only if the serial
\* of the entry differs from the serial of the device in the slot; if the
\* serials are equal the device stays and only its status becomes the
\* entry's.  The slots beyond the list are left alone.
C12_SlotReplacedIffSerialDiffers ==
    [][(hasBus /\ ~asserted /\ repeat' >= 1) =>
         /\ \A i \in 1..Len(lastList') :
              devices'[i] =
                IF devices[i].info.serno # lastList'[i].serno
                THEN ModelSelect(lastList'[i])
                ELSE [devices[i] EXCEPT !.info.status = lastList'[i].status]
         /\ \A s \in Slots \ (1..Len(lastList')) :
              devices'[s] = devices[s]]_vars

\* slot 1 holds the air-quality sensor A whose status an entry of the same
\* serial and another article has set to offline; slot 2 holds the sensor B
\* that an entry put in place of an air-quality sensor (whose fourth address
\* is still in the index)
C12_Witness ==
    /\ repeat >= 1
    /\ devices[1].variant = "AirQuality"
    /\ devices[1].info.serno = "A"
    /\ devices[1].info.artno = "11151"
    /\ devices[1].info.status = "offline"
    /\ devices[2] = ModelSelect(DeviceInfo(Owd(2), "B", "online", "11150"))
    /\ <<Owd(2), 5>> \in DOMAIN busaddrs
    /\ lastList = <<DeviceInfo(Owd(1), "A", "offline", "11150"),
                    DeviceInfo(Owd(2), "B", "online", "11150")>>

\* the registrations of the devices now in the slots
CurrentRoutes ==
    TopicsInsert([t \in {} |-> 0],
                 BusRegisterMqtt(MqttDevs(devices), BusContno, 0))

\* C11: after populate() the route table of the bus holds the registrations
\* of the devices now in its slots and no other; no route of a device that
\* was replaced is left.
C11_RoutesAreExactlyCurrentDevices ==
    enumerated >= 1 => topics = CurrentRoutes

\* C13: after populate() every entry of the device list is in the slot its
\* bus id numbers ("OWD<n>" in slot n), and a slot whose number no entry of
\* the first list carries is still unconfigured.
C13_EntryInSlotOfItsBusId ==
    enumerated >= 1 =>
        /\ \A i \in 1..Len(lastList) :
              devices[lastList[i].busid[2]].info.serno = lastList[i].serno
        /\ enumerated = 1 =>
              \A s \in 1..MaxItems :
                 (\A i \in 1..Len(lastList) : lastList[i].busid[2] # s)
                    => devices[s] = DefaultModel

\* C18: when pick! has found no message of the kind it waits for (and no
\* controller error) in the queue and the stream has reached its end, it
\* returns the error Disconnected and leaves the queue as it is.
C18_PickFailsOnEndOfStream ==
    [][(pc = "pick_recv" /\ wire = <<>> /\ closed = "eof") =>
         /\ pc' = "idle"
         /\ result' = Returned("disconnected", NoMsg)
         /\ queue' = queue]_vars

\* a pick has failed with Disconnected while the queue held messages of other
\* kinds
C18_Witness ==
    /\ pc = "idle"
    /\ want \in PickKinds
    /\ result = Returned("disconnected", NoMsg)
    /\ closed = "eof"
    /\ queue # <<>>
    /\ \A i \in DOMAIN queue : queue[i].kind # want

\* ---------------------------------------------------------------------------
\* Claims about the Routes table (checked under SpecRoutes)

\* the topics the register() calls so far have named
Mentioned == { regLog[i][1] : i \in DOMAIN regLog }

\* C14: register(topic, id) puts the id at the end of the recipients of the
\* topic and leaves the other topics alone; it returns a Subscribe for the
\* topic if and only if no earlier call had named the topic.
C14_RegisterAppendsSubscribesOnce ==
    [][Len(regLog') = Len(regLog) + 1 =>
         LET t == regLog'[Len(regLog')][1]
             id == regLog'[Len(regLog')][2]
         IN  /\ DOMAIN byTopic' = DOMAIN byTopic \cup {t}
             /\ byTopic'[t] = (IF t \in DOMAIN byTopic THEN byTopic[t]
                                                      ELSE <<>>) \o <<id>>
             /\ \A u \in DOMAIN byTopic \ {t} : byTopic'[u] = byTopic[u]
             /\ ret'.call = "register"
             /\ ret'.sub = (IF t \in Mentioned THEN <<>> ELSE <<t>>)]_vars

\* a topic has two different recipients, and the call after them named a new
\* topic and returned its Subscribe
C14_Witness ==
    /\ ret.call = "register"
    /\ ret.sub = <<ret.topic>>
    /\ \E u \in DOMAIN byTopic :
          /\ u # ret.topic
          /\ Len(byTopic[u]) = 2
          /\ byTopic[u][1] # byTopic[u][2]

\* C15: subscriptions() yields one Subscribe for each topic the register()
\* calls so far have named, and no topic twice.
C15_SubscriptionsOnePerTopic ==
    ret.call = "subscriptions" =>
        /\ Len(ret.sub) = Cardinality(Mentioned)
        /\ { ret.sub[i] : i \in DOMAIN ret.sub } = Mentioned
        /\ \A i, j \in DOMAIN ret.sub : ret.sub[i] = ret.sub[j] => i = j

\* subscriptions() was called after three register() calls that named two
\* topics
C15_Witness ==
    /\ ret.call = "subscriptions"
    /\ Len(regLog) = 3
    /\ Cardinality(Mentioned) = 2
    /\ Len(ret.sub) = 2

\* a topic without wildcard levels
Concrete(topic) == \A i \in DOMAIN topic : topic[i] \notin {"+", "#"}

\* the MQTT rule: '+' stands for one level, '#' for the levels that remain
RECURSIVE Matches(_, _)
Matches(topic, pattern) ==
    IF pattern = <<>> THEN topic = <<>>
    ELSE IF Head(pattern) = "#" THEN TRUE
    ELSE IF topic = <<>> THEN FALSE
    ELSE /\ Head(pattern) \in {"+", Head(topic)}
         /\ Matches(Tail(topic), Tail(pattern))

\* C16: lookup of a concrete topic returns every recipient registered under a
\* pattern that matches the topic by the MQTT wildcard rule.
C16_LookupMatchesWildcards ==
    (ret.call = "lookup" /\ Concrete(ret.topic)) =>
        \A i \in DOMAIN regLog :
            Matches(ret.topic, regLog[i][1]) =>
                \E k \in DOMAIN ret.ids : ret.ids[k] = regLog[i][2]

\* ---------------------------------------------------------------------------
\* Claims about receive and munch (checked under SpecRecv)

\* a line of garbage with a byte that is not UTF-8, then a valid INF line
NoiseThenInf(bytes) ==
    /\ Len(bytes) >= 4
    /\ SubSeq(bytes, Len(bytes) - 2, Len(bytes)) = <<"n", "V", "n">>
    /\ \A i \in 1..(Len(bytes) - 3) : bytes[i] \in {"x", "g"}
    /\ \E i \in 1..(Len(bytes) - 3) : bytes[i] = "x"

\* C19: when one read() has put a noise line (garbage that is not UTF-8, with
\* its line ending) and a valid INF line into the buffer, next() yields one
\* parse error, then the INF, then the end of the stream; nothing of the
\* buffer is left over.
C19_NoiseLineThenInf ==
    (NoiseThenInf(input) /\ reads = 1 /\ cursor = <<>>) =>
        /\ ~panicked
        /\ partial = <<>>
        /\ \/ yielded \o backlog = <<"err", "inf">>
           \/ backlog = <<>> /\ yielded = <<"err", "inf", "end">>

\* the noise line and the INF line came with one read() and next() has been
\* called until the end of the stream
C19_Witness ==
    /\ input = <<"x", "n", "V", "n">>
    /\ reads = 1
    /\ yielded = <<"err", "inf", "end">>

\* the complete lines of the bytes that are a valid INF line
RECURSIVE ValidLines(_, _)
ValidLines(bytes, from) ==
    IF \A i \in from..Len(bytes) : bytes[i] # "n" THEN 0
    ELSE LET nl == CHOOSE i \in from..Len(bytes) :
                      bytes[i] = "n" /\ \A j \in from..(i - 1) : bytes[j] # "n"
         IN  (IF SubSeq(bytes, from, nl - 1) = <<"V">> THEN 1 ELSE 0)
             + ValidLines(bytes, nl + 1)

\* C20: munch() never brings the session down on garbage, and when next()
\* has reached the end of the stream every complete valid line of the input
\* has been yielded as a message.
C20_GarbageNeverStallsTheSession ==
    /\ ~panicked
    /\ (yielded # <<>> /\ yielded[Len(yielded)] = "end") =>
          Cardinality({ i \in DOMAIN yielded : yielded[i] = "inf" })
             >= ValidLines(input, 1)

\* ---------------------------------------------------------------------------
\* Claims about the start of a session (checked under SpecOpen)

\* the response of this kind has been picked
Picked(kind) == \E k \in DOMAIN acked : acked[k] = kind

\* C17: the commands of the handshake go out in the fixed order, each one
\* only after the response to the one before it has been picked, and the
\* session runs its event loop only after the CSI and the device list have
\* been picked.
C17_HandshakeInOrderBeforeRunning ==
    /\ \A i \in DOMAIN sent : sent[i] = Cmds[i]
    /\ \A i \in 2..Len(sent) : Picked(Acks[i - 1])
    /\ hsPc = "running" => (Picked("CSI") /\ Picked("List3"))

\* ---------------------------------------------------------------------------
\* Claims about the handlers of single devices (checked under SpecDev)

\* the last call gave the device `dev` a word of its digital inputs
InputUpdate(dev) ==
    /\ devCall.op = "1wire"
    /\ devCall.dev = dev
    /\ devCall.addr \in {"SYS1_1", "1"}

\* the payloads the last call published under a topic
PublishedOn(topic) ==
    {devOut.mqtt[i].payload :
        i \in {j \in DOMAIN devOut.mqtt : devOut.mqtt[j].topic = topic}}

\* bit k-1 of a word, as the payload "0" or "1"
Level(word, k) == IF (word \div (2 ^ (k - 1))) % 2 = 1 THEN "1" ELSE "0"

\* one level per channel; an edge for the channels that differ from prev, none
\* for the others
LevelsAndEdges(n, prev) ==
    \A k \in 1..n :
        /\ PublishedOn(<<"in", k>>) = {Level(devCall.val, k)}
        /\ PublishedOn(<<"button", k>>) =
             IF Level(devCall.val, k) # Level(prev, k)
             THEN {Level(devCall.val, k)} ELSE {}

\* the Controller2 reports its four inputs in this way, against the word its
\* field holds (0 before the first update)
Controller2LevelsAndEdges ==
    InputUpdate("Controller2") =>
        LevelsAndEdges(4, IF devCall.prev < 0 THEN 0 ELSE devCall.prev)

\* C21: every update of the input word of a Switch8 publishes the level of
\* each channel on in/ch<k>, and an edge on button/ch<k> for exactly the
\* channels whose bit differs from the word before, with the new bit.
C21_Switch8LevelsAndEdges ==
    (InputUpdate("Switch8") /\ devCall.prev >= 0) =>
        LevelsAndEdges(8, devCall.prev)

\* C22: the first input word a freshly created device is given publishes
\* levels only, no edge on any button/ch<k>.
C22_NoEdgeOnFirstWord ==
    \A dev \in DevKinds :
        (InputUpdate(dev) /\ devCall.prev < 0) =>
            \A i \in DOMAIN devOut.mqtt : devOut.mqtt[i].topic[1] # "button"

\* C29: a payload of set/ana that is no number, or a number outside 0..10 V,
\* is refused with a value error and no command; a number inside the range
\* yields the one command SET,SYS,OUTA with the value in whole centivolts.
C29_AnalogOutputRange ==
    (devCall.op = "mqtt" /\ devCall.dev = "Controller2" /\ devCall.token = 6) =>
        LET pl == devCall.payload
        IN  IF pl.num /\ pl.half >= 0 /\ pl.half <= 2000
            THEN /\ devOut.err = "none"
                 /\ devOut.mqtt = <<>>
                 /\ \E centi \in 0..1000 :
                        /\ 2 * centi <= pl.half
                        /\ pl.half < 2 * centi + 2
                        /\ devOut.ow = <<<<"SET,SYS,OUTA", centi>>>>
            ELSE /\ devOut.err = "Value"
                 /\ devOut.mqtt = <<>>
                 /\ devOut.ow = <<>>

\* 5.505 V is accepted and sent as 550 centivolts
C29_Witness ==
    /\ devCall.op = "mqtt"
    /\ devCall.token = 6
    /\ devCall.payload = Number(1101)
    /\ devOut.ow = <<<<"SET,SYS,OUTA", 550>>>>

\* 10.005 V is refused
C29_WitnessRefused ==
    /\ devCall.op = "mqtt"
    /\ devCall.token = 6
    /\ devCall.payload = Number(2001)
    /\ devOut.err = "Value"

\* ---------------------------------------------------------------------------
\* Claims about the Shutter (checked under SpecShutter)

\* the last call was a status of the motor in state `val`
MotorStatus(val) ==
    /\ shCall.op = "1wire"
    /\ shCall.sub = 3
    /\ shCall.val = val

\* what the last status published under a topic
Reported(topic) ==
    {shOut.mqtt[i].payload :
        i \in {j \in DOMAIN shOut.mqtt : shOut.mqtt[j].topic = topic}}

\* C23: a Shutter that opens from position 0 and is given a status of its
\* motion more than the travel time after the start has sent the STOP command
\* (SET,OWD,SHT,<dev>,3) and reports the position 100.
C23_StopsAt100AfterTravelTime ==
    ( /\ MotorStatus(2)
      /\ shCall.dir = "Open"
      /\ shCall.initial_pos = 0
      /\ shCall.elapsed > Ticks(TimeTo("Open")) ) =>
        /\ shOut.ow = <<<<"SET,OWD,SHT", 3>>>>
        /\ Reported("position") = {100}

\* the same status one second later: STOP is sent and the position is 100
C23_AfterOneMoreSecond ==
    ( /\ MotorStatus(2)
      /\ shCall.dir = "Open"
      /\ shCall.initial_pos = 0
      /\ shCall.elapsed >= Ticks(TimeTo("Open") + 1) ) =>
        /\ shOut.ow = <<<<"SET,OWD,SHT", 3>>>>
        /\ Reported("position") = {100}

C24_WitnessClosed ==
    /\ MotorStatus(3)
    /\ shCall.dir = "Close"
    /\ Reported("state") = {"closed"}
    /\ position = 0

\* ---------------------------------------------------------------------------
\* Claims about the HVAC controller (checked under SpecClimate)

\* the payloads the last call published under a topic, and how many messages
Commands(topic) ==
    {hvOut[i].payload : i \in {j \in DOMAIN hvOut : hvOut[j].topic = topic}}
CountOn(topic) == Cardinality({j \in DOMAIN hvOut : hvOut[j].topic = topic})

\* hvOut holds the messages of an eval() of the present state
Evaluated == hvOut # <<>>

\* the step processes a reading of the sensor that moves the current
\* temperature from one value to another, at setpoint 21.0 in heat mode
Moves(from, to) ==
    /\ hvPc = "loop" /\ hvPc' = "loop"
    /\ hvCall'.token = TOK_TEMP
    /\ mode = "heat" /\ mode' = "heat"
    /\ temp_set = 2100
    /\ temp_cur = from /\ temp_cur' = to

\* C25: at setpoint 21.0 in heat mode with the heating off, a current
\* temperature of 20.9 publishes heating on; 20.5 after that publishes aux on;
\* 20.95 after that publishes aux off; 21.5 after that publishes heating off.
C25_HysteresisSequence ==
    [][ /\ (Moves(2100, 2090) /\ ~heating_on) => "1" \in Commands("heat_cmnd")'
        /\ (Moves(2090, 2050) /\ config.aux_cmnd /\ ~aux_on) =>
               "1" \in Commands("aux_cmnd")'
        /\ (Moves(2050, 2095) /\ config.aux_cmnd /\ aux_on) =>
               "0" \in Commands("aux_cmnd")'
        /\ (Moves(2095, 2150) /\ heating_on) => "0" \in Commands("heat_cmnd")'
      ]_vars

\* the steps of the sequence other than the second one
C25_OtherSteps ==
    [][ /\ (Moves(2100, 2090) /\ ~heating_on) => "1" \in Commands("heat_cmnd")'
        /\ (Moves(2050, 2095) /\ config.aux_cmnd /\ aux_on) =>
               "0" \in Commands("aux_cmnd")'
        /\ (Moves(2095, 2150) /\ heating_on) => "0" \in Commands("heat_cmnd")'
      ]_vars

\* a reading of 20.5 at setpoint 21.0 never turns the aux heating on
C25_NoAuxAt205 ==
    [][ \A from \in Readings \cup {INITIAL_TEMP} :
            Moves(from, 2050) => "1" \notin Commands("aux_cmnd")' ]_vars

\* the heat commands eval() owes in heat mode
HeatOwed ==
    IF temp_cur < temp_set /\ ~heating_on THEN {"1"}
    ELSE IF temp_cur >= temp_set /\ heating_on THEN {"0"}
    ELSE {}

\* C26 as stated: in heat mode eval() publishes heating on when current <
\* setpoint and the heating is off, then also aux on when current < setpoint
\* - 0.8; heating off when current >= setpoint and the heating is on; aux off
\* when current >= setpoint - 0.1 and aux is on; no other heat or aux command.
C26_HeatModeCommands ==
    (Evaluated /\ mode = "heat" /\ config.aux_cmnd) =>
        /\ Commands("heat_cmnd") = HeatOwed
        /\ Commands("aux_cmnd") =
             (IF temp_cur < temp_set /\ ~heating_on /\ temp_cur < temp_set - 80
              THEN {"1"} ELSE {})
             \cup (IF temp_cur >= temp_set - 10 /\ aux_on THEN {"0"} ELSE {})

\* C26, amended: the aux-on command is published only while aux is off, and
\* aux commands only if an aux-command topic is configured.
C26_HeatModeCommandsAuxOff ==
    (Evaluated /\ mode = "heat") =>
        /\ Commands("heat_cmnd") = HeatOwed
        /\ CountOn("heat_cmnd") <= 1
        /\ CountOn("aux_cmnd") <= 1
        /\ Commands("aux_cmnd") =
             IF ~config.aux_cmnd THEN {}
             ELSE (IF /\ temp_cur < temp_set /\ ~heating_on
                      /\ temp_cur < temp_set - 80 /\ ~aux_on
                   THEN {"1"} ELSE {})
                  \cup (IF temp_cur >= temp_set - 10 /\ aux_on
                        THEN {"0"} ELSE {})

\* 20.19 degrees at setpoint 21.0: heating and aux heating are turned on
C26_Witness ==
    /\ Evaluated /\ mode = "heat"
    /\ temp_set = 2100 /\ temp_cur = 2019
    /\ Commands("heat_cmnd") = {"1"}
    /\ Commands("aux_cmnd") = {"1"}

\* C27: in mode off eval() publishes the action "idle", "off" to the
\* heat-command topic exactly if the heating is on, "off" to the aux-command
\* topic exactly if aux is on, and never an "on" command.
C27_OffModeCommands ==
    (Evaluated /\ mode = "off" /\ config.aux_cmnd) =>
        /\ Commands("action") = {"idle"}
        /\ Commands("heat_cmnd") = IF heating_on THEN {"0"} ELSE {}
        /\ Commands("aux_cmnd") = IF aux_on THEN {"0"} ELSE {}

\* the commands of mode off without the action
C27_OffModeHeatAndAux ==
    (Evaluated /\ mode = "off") =>
        /\ Commands("heat_cmnd") = IF heating_on THEN {"0"} ELSE {}
        /\ Commands("aux_cmnd") =
             IF aux_on /\ config.aux_cmnd THEN {"0"} ELSE {}

\* the payload of the message a step processes is no mode / no number
BadMode ==
    /\ hvCall'.token = TOK_MODE_SET
    /\ hvCall'.payload.word \notin {"off", "heat"}
BadNumber ==
    /\ hvCall'.token \in {TOK_TEMP_SET, TOK_TEMP}
    /\ ~hvCall'.payload.num

\* C28: a mode/set payload that is no mode fails with a keyword error, a
\* target/set or sensor payload that is no number with a number-format error;
\* either leaves mode, setpoint, current temperature, heating and aux as they
\* were, publishes nothing, and the main loop goes on.
C28_BadPayloadDropped ==
    [][ /\ (hvPc = "loop" /\ hvCall' # hvCall /\ (BadMode \/ BadNumber)) =>
              /\ BadMode => hvErr' = "Keyword"
              /\ BadNumber => hvErr' = "FloatFormat"
              /\ UNCHANGED <<mode, temp_set, temp_cur, heating_on, aux_on>>
              /\ hvOut' = <<>>
              /\ hvPc' = "loop"
        /\ hvErr # "none" => hvPc' = "loop"
      ]_vars

\* "x" arrived on mode/set while the heating was on
C28_Witness ==
    /\ hvPc = "loop"
    /\ hvCall = [token |-> TOK_MODE_SET, payload |-> Word("x")]
    /\ hvErr = "Keyword"
    /\ hvOut = <<>>
    /\ heating_on

\* "x" arrived on the topic of the sensor
C28_WitnessNumber ==
    /\ hvPc = "loop"
    /\ hvCall = [token |-> TOK_TEMP, payload |-> Word("x")]
    /\ hvErr = "FloatFormat"
    /\ temp_cur = 2050

\* ---------------------------------------------------------------------------
\* Claims about errors of handle_mqtt in the Bridge (checked under SpecBridge)

\* handle_mqtt of the k-th recipient of the publish taken last fails
RecipientFails(k) ==
    LET id == RoutesLookup(routes, last.topic)[k]
        i == BusPosition(id.loc[1])
    IN  /\ i # 0
        /\ HandleMqtt(busDev[i][id.loc[2]], last.payload, id.token).err

\* C30: a validation error of one device's handle_mqtt is dropped inside the
\* handling of the publish: the recipients registered after the failing one
\* are still called with the message.
C30_ErrorDoesNotSkipRecipients ==
    (BridgeIdle /\ last.type = "Pub") =>
        \A k \in 1..Len(RoutesLookup(routes, last.topic)) :
            (\E j \in 1..(k - 1) : RecipientFails(j)) =>
                /\ Len(invoked) >= k
                /\ invoked[k] = RoutesLookup(routes, last.topic)[k]

\* a publish whose only or last recipient fails is dropped without a trace:
\* no line is sent for it and the Bridge is back in select()
C30_ErrorSendsNothing ==
    (BridgeIdle /\ last.type = "Pub") =>
        \A k \in 1..Len(invoked) :
            RecipientFails(k) =>
                \A i \in Buses : \A n \in 1..Len(LinesFor(i)) :
                    LinesFor(i)[n].loc # invoked[k].loc

\* ---------------------------------------------------------------------------
\* Claims about the MQTT reader (checked under SpecMqtt)

\* C31: the reconnect delay starts at 200 ms, is multiplied by 6/5 after each
\* failed attempt, and never exceeds 20 000 ms however many attempts fail.
C31_RetryDelayAtMost20s ==
    /\ failures = 0 => retry = 200
    /\ retry <= 20000
    /\ slept <= 20000

\* the first delay is 200 ms and each failure below the limit multiplies the
\* delay by 6/5, cut to whole milliseconds
C31_GrowsBySixFifths ==
    [][ (failures' = failures + 1) =>
           /\ slept' = retry
           /\ failures = 0 => slept' = 200
           /\ retry < 20000 => 5 * retry' <= 6 * retry /\ 6 * retry < 5 * retry' + 5
           /\ retry >= 20000 => retry' = retry ]_vars

\* ---------------------------------------------------------------------------
\* Claims about the selection of the device variant (checked under SpecSelect)

\* the article-number table
ArticleTable(artno) ==
    CASE artno = "11150" -> "TempHum"
      [] artno = "11151" -> "AirQuality"
      [] artno = "11216" -> "BinarySensor"
      [] artno \in {"11220", "11228", "11229"} -> "Switch8"
      [] artno = "11221" -> "Dimmer"
      [] artno = "11322" -> "Hub"
      [] artno = "11340" -> "Controller2"
      [] OTHER -> "Unknown"

\* C32: the variant selected for a device follows the article-number table
\* exactly: 11150 TempHum, 11151 AirQuality, 11216 BinarySensor,
\* 11220/11228/11229 Switch8, 11221 Dimmer, 11322 Hub, 11340 Controller2,
\* every other article number Unknown.
C32_SelectFollowsTable ==
    \A i \in 1..Len(selected) :
        selected[i].variant = ArticleTable(selected[i].info.artno)

\* the table is followed for every article number but 11221
C32_SelectFollowsTableButDimmer ==
    \A i \in 1..Len(selected) :
        selected[i].info.artno # "11221" =>
            selected[i].variant = ArticleTable(selected[i].info.artno)

\* ---------------------------------------------------------------------------
\* Claims about a pick beside the reader thread (checked under SpecShared)

\* the removing step of a pick
PickRemoves == pc = "pick_remove" /\ pc' = "idle"

\* C33: when a pick runs beside a reader on the same connection, the pick
\* removes and returns exactly the message its scan matched: the queue does
\* not change between locating and removing, no other message is removed and
\* the pick does not panic.
C33_PickRemovesItsMatch ==
    [][ PickRemoves =>
          /\ queue = scanned
          /\ result'.type = "picked"
          /\ result'.id = scanned[found].id
          /\ queue' = RemoveAt(queue, found) ]_vars

\* without a reader that has started to take messages, the pick removes and
\* returns the message its scan matched
C33_AloneRemovesItsMatch ==
    [][ (PickRemoves /\ streamed = <<>> /\ rdPc # "ended" /\ queue = scanned) =>
          /\ result'.type = "picked"
          /\ result'.id = scanned[found].id
          /\ queue' = RemoveAt(queue, found) ]_vars

\* ---------------------------------------------------------------------------
\* Claims about the writer task beside a reading reader (checked under FairLoop)

\* C34: every command line the writer task of a running session has taken
\* from its channel is eventually written to the socket under fair scheduling
\* alone, also when the controller sends no inbound data: the reader task
\* waiting in a blocking read does not keep the writer from the stream.
C34_WriterGetsTheStream ==
    \A c \in Ctrls :
        (writerPc[c] = "send" /\ transport[c] = "open")
            ~> (writerPc[c] # "send" \/ transport[c] = "closed")

\* while the reader is not inside read(), the writer that holds a line can
\* write it
C34_WriterFreeOutsideRead ==
    \A c \in Ctrls :
        (writerPc[c] = "send" /\ readerPc[c] # "read") => ENABLED WriterSend(c, TRUE)

\* ---------------------------------------------------------------------------
\* Claims about the dispatch of device events (checked under SpecDispatch)

\* C35: after any sequence of enumerations, also one that replaces the device
\* of a slot by another variant, every device-status event routed through the
\* bus-address index reaches a device whose handler recognises the
\* sub-address: the fatal 'unknown bus address' assertion is unreachable.
C35_RoutedEventIsRecognised == fault # "unknown busaddr"

\* every address the current devices register is recognised by the device the
\* index names for it
C35_OwnAddressesRecognised ==
    \A s \in Slots : \A a \in Register1Wire(devices[s]) :
        a \in DOMAIN busaddrs => Recognises(devices[busaddrs[a]], a)

\* C37: the dispatch never indexes outside what exists: an OWD-status with
\* any slot number 0..255 and a device event whose controller number has no
\* Bus yet are handled or dropped without an access beyond the 31 slots or
\* beyond the list of buses.
C37_DispatchStaysInRange == fault \notin {"bus index", "slot index"}

\* an event for the Bus that exists, with a slot number below 31, is
\* delivered to that slot
C37_InRangeEventsDelivered ==
    [][ (delivered'.kind = "OWDStatus" /\ delivered' # delivered
         /\ hasBus /\ delivered'.contno <= BusContno /\ fault' = "none")
           => delivered'.slot \in 0..(NUM_DEVICES - 1) ]_vars

\* ---------------------------------------------------------------------------
\* Claims about the items of a starting session (checked under SpecStart)

\* C36: in every execution, also one where GET,SYS,INFO fails while
\* GET,OWB,LISTALL1 is answered, no device list is dispatched to a Bus whose
\* controller no CSI has set: the assertion 'populate before setting
\* controller info' never fails.
C36_NoListBeforeControllerInfo == ~asserted

\* when the pick of the CSI succeeded, the CSI stands in the channel before
\* every device list and the assertion holds
C36_ListAfterPickedCsi ==
    Picked("CSI") => ~asserted

\* ---------------------------------------------------------------------------
\* Claims about a pick that fails on a controller error (checked under SpecSess)

\* the pick has just failed with Error::Controller
PickFailsOnError == pc = "pick_scan" /\ pc' = "idle" /\ result'.type = "controller"

\* C38: a pick that fails with a controller error leaves the queue as it was:
\* the Response::Err stays queued, no pick ever takes it, get() delivers it
\* when it is at the front, and as long as it is queued every pick whose
\* match lies behind it fails with the same error.
C38_FailedPickLeavesQueue ==
    [][ /\ PickFailsOnError =>
              /\ queue' = queue
              /\ \E i \in DOMAIN queue' :
                    /\ queue'[i].kind = "Err"
                    /\ queue'[i].id = result'.id
                    /\ queue'[i].code = result'.code
        /\ (pc = "pick_scan" /\ pc' # pc /\ Scan(queue, want, 1).hit = "error") =>
              /\ pc' = "idle"
              /\ result' = Returned("controller", queue[Scan(queue, want, 1).at])
        /\ picked' # picked => result'.kind # "Err"
        /\ (pc = "get" /\ pc' # pc /\ queue # <<>> /\ Head(queue).kind = "Err") =>
              /\ result' = Returned("item", Head(queue))
              /\ streamed' = Append(streamed, Head(queue)) ]_vars

\* a pick has failed on a Response::Err that is still queued, with a
\* response of the wanted variant behind it
C38_Witness ==
    /\ pc = "idle"
    /\ result.type = "controller"
    /\ \E i, j \in DOMAIN queue :
          /\ i < j
          /\ queue[i].id = result.id
          /\ queue[j].kind = want

\* the Response::Err a pick failed on has been delivered by get()
C38_WitnessStreamed ==
    /\ result.type = "item"
    /\ result.kind = "Err"
    /\ \E k \in DOMAIN streamed : streamed[k].id = result.id

\* ---------------------------------------------------------------------------
\* Claims about the discovery entries of the controller (checked under SpecDio)

\* C39: once the controller has reported its DIO mode in answer to the
\* GET,SYS,DIO of init(), the button discovery entries published last for it
\* carry the press type of that mode: 'short' for the Edge modes, 'long' for
\* the Level modes.
C39_ButtonEntriesMatchDioMode ==
    (dioOut # "none" /\ dio = dioOut) => announced = Dur(dio)

\* every announcement carries the press type of the mode the device holds at
\* that moment
C39_AnnounceUsesStoredMode ==
    [][ (dioPending' >= dioPending) => announced' = Dur(dio') ]_vars

\* ---------------------------------------------------------------------------
\* Claims about the parsing of the device list (checked under SpecList)

\* the list has left the parser: it is in the queue or has been picked
ListEmitted == lsPicked >= 0 \/ \E i \in DOMAIN lsQueue : lsQueue[i].kind = "List3"

\* the entries of the list that has left the parser
ListItemsEmitted ==
    IF lsPicked >= 0 THEN lsPicked
    ELSE lsQueue[CHOOSE i \in DOMAIN lsQueue : lsQueue[i].kind = "List3"].items

\* C40: for a device list of fewer than 30 entries the parser reports
\* need-more-input until the beginning of a line that follows the LST lines
\* and is none is in the buffer; only then the list is emitted, with every LST
\* line written so far, and the following line is left to be parsed by
\* itself. So a pick of the device list does not complete before the
\* controller has sent a further line.
C40_ListWaitsForFollowingLine ==
    /\ (lsStage = "items" /\ lsCount < LST_MAX) =>
          /\ ~ListEmitted
          /\ lsQueue = <<>>
          /\ Len(lsPartial) >= lsCount + 1
          /\ lsCount >= 1 => ParseLines(lsPartial) = Incomplete
    /\ (ListEmitted /\ lsCount < LST_MAX) =>
          /\ lsStage = "after"
          /\ ListItemsEmitted = lsCount
          /\ \/ lsPartial = <<"e">>
             \/ /\ lsPartial = <<>>
                /\ \E i \in DOMAIN lsQueue : lsQueue[i].kind \in {"Event", "error"}

\* a list of three entries has been picked after the first bytes of a
\* following line had arrived, which are still in the buffer
C40_Witness ==
    /\ lsPicked = 3
    /\ lsCount = 3
    /\ lsPartial = <<"e">>

\* a list of 30 entries is emitted with its last LST line
C40_FullListAtOnce ==
    (lsCount = LST_MAX /\ ~Begun(lsPartial)) => ListEmitted

====
